---- MODULE Spec2Model ----
(***************************************************************************)
(* Speaker separation and role assignment of DAIA (scripts/lib_speaker.py) *)
(* with the collaborators it calls: WhisperTranscriber.transcribe_file     *)
(* (scripts/lib_transcription.py) and LocalSentimentAnalyzer.analyze_text  *)
(* (scripts/lib_sentiment.py).                                             *)
(*                                                                         *)
(* Python floats are IEEE-754 binary64 numbers.  They are modelled bit for *)
(* bit: a float is a sign, a 53-bit significand (a sequence of bits, least *)
(* significant first) and a binary exponent, and every arithmetic          *)
(* operation rounds to nearest, ties to even.                              *)
(***************************************************************************)
EXTENDS Integers, Sequences, FiniteSets, TLC

(***************************************************************************)
(* Natural numbers of any size, as sequences of bits, least significant    *)
(* bit first, without high-order zeros.                                    *)
(***************************************************************************)
MaxOf(S) == CHOOSE x \in S : \A y \in S : y <= x

MinOf(S) == CHOOSE x \in S : \A y \in S : x <= y

Zeros(n) == [i \in 1..n |-> 0]

BStrip(b) ==
    LET ones == {i \in 1..Len(b) : b[i] = 1}
    IN  IF ones = {} THEN <<>> ELSE SubSeq(b, 1, MaxOf(ones))

\* the bits of 0 <= k < 2^30
BFromInt(k) == BStrip([i \in 1..30 |-> (k \div 2^(i - 1)) % 2])

RECURSIVE BToInt(_)
BToInt(b) == IF b = <<>> THEN 0 ELSE b[1] + 2 * BToInt(Tail(b))

BitAt(b, i) == IF i <= Len(b) THEN b[i] ELSE 0

\* the carry out of position i of a + b: some position j <= i generates a
\* carry and every position between j and i passes it on
Carry(a, b, i) ==
    \E j \in 1..i :
        /\ BitAt(a, j) + BitAt(b, j) = 2
        /\ \A k \in (j + 1)..i : BitAt(a, k) + BitAt(b, k) >= 1

BAdd(a, b) ==
    LET n == IF Len(a) > Len(b) THEN Len(a) ELSE Len(b)
        c(i) == IF Carry(a, b, i) THEN 1 ELSE 0
    IN  BStrip([i \in 1..(n + 1) |-> (BitAt(a, i) + BitAt(b, i) + c(i - 1)) % 2])

\* the borrow out of position i of a - b
Borrow(a, b, i) ==
    \E j \in 1..i :
        /\ BitAt(a, j) < BitAt(b, j)
        /\ \A k \in (j + 1)..i : BitAt(a, k) <= BitAt(b, k)

\* a - b for a >= b
BSub(a, b) ==
    LET c(i) == IF Borrow(a, b, i) THEN 1 ELSE 0
    IN  BStrip([i \in 1..Len(a) |-> (BitAt(a, i) - BitAt(b, i) - c(i - 1) + 2) % 2])

\* -1, 0, 1 as a < b, a = b, a > b (both without high-order zeros)
BCmp(a, b) ==
    IF Len(a) # Len(b) THEN (IF Len(a) < Len(b) THEN -1 ELSE 1)
    ELSE LET diff == {i \in 1..Len(a) : a[i] # b[i]}
         IN  IF diff = {} THEN 0
             ELSE IF a[MaxOf(diff)] < b[MaxOf(diff)] THEN -1 ELSE 1

BShl(b, n) == IF b = <<>> THEN <<>> ELSE Zeros(n) \o b

\* number of low-order zero bits of b # 0
BLowZeros(b) == MinOf({i \in 1..Len(b) : b[i] = 1}) - 1

RECURSIVE BMul(_, _)
BMul(a, b) ==
    IF a = <<>> \/ b = <<>> THEN <<>>
    ELSE LET rest == BShl(BMul(a, Tail(b)), 1)
         IN  IF b[1] = 1 THEN BAdd(a, rest) ELSE rest

(***************************************************************************)
(* binary64.  A float is [neg, m, e] with value (-1)^neg * m * 2^e, m a    *)
(* bit string of exactly MantBits bits whose top bit is 1; zero has        *)
(* m = <<>>.  The values the program computes stay far from the subnormal  *)
(* and overflow ranges, which are not modelled.                            *)
(***************************************************************************)
MantBits == 53

FZero == [neg |-> FALSE, m |-> <<>>, e |-> 0]

\* The float nearest to (-1)^neg * (m + f) * 2^e, where 0 <= f < 1 and
\* sticky says whether f > 0.  Round to nearest, ties to even.
FRound(neg, m0, e, sticky) ==
    LET m == BStrip(m0)
        n == Len(m)
    IN  IF n = 0 THEN FZero
        ELSE IF n <= MantBits
        THEN [neg |-> neg, m |-> Zeros(MantBits - n) \o m, e |-> e - (MantBits - n)]
        ELSE LET d     == n - MantBits
                 kept  == SubSeq(m, d + 1, n)
                 guard == m[d]
                 rest  == sticky \/ \E i \in 1..(d - 1) : m[i] = 1
                 up    == guard = 1 /\ (rest \/ kept[1] = 1)
                 k2    == IF up THEN BAdd(kept, <<1>>) ELSE kept
             IN  IF Len(k2) > MantBits
                 THEN [neg |-> neg, m |-> SubSeq(k2, 2, MantBits + 1), e |-> e + d + 1]
                 ELSE [neg |-> neg, m |-> k2, e |-> e + d]

FromInt(k) == FRound(k < 0, BFromInt(IF k < 0 THEN -k ELSE k), 0, FALSE)

FNeg(x) == IF x.m = <<>> THEN x ELSE [x EXCEPT !.neg = ~x.neg]

\* -1, 0, 1 as |x| < |y|, |x| = |y|, |x| > |y|
FCmpAbs(x, y) ==
    IF x.m = <<>> \/ y.m = <<>>
    THEN (IF x.m = y.m THEN 0 ELSE IF x.m = <<>> THEN -1 ELSE 1)
    ELSE IF x.e # y.e THEN (IF x.e < y.e THEN -1 ELSE 1)
    ELSE BCmp(x.m, y.m)

FLt(x, y) ==
    IF x.neg # y.neg THEN x.neg
    ELSE IF x.neg THEN FCmpAbs(x, y) = 1 ELSE FCmpAbs(x, y) = -1

FLe(x, y) == x = y \/ FLt(x, y)

FAdd(x, y) ==
    IF x.m = <<>> THEN y
    ELSE IF y.m = <<>> THEN x
    ELSE LET e  == IF x.e < y.e THEN x.e ELSE y.e
             mx == BShl(x.m, x.e - e)
             my == BShl(y.m, y.e - e)
             c  == BCmp(mx, my)
         IN  IF x.neg = y.neg THEN FRound(x.neg, BAdd(mx, my), e, FALSE)
             ELSE IF c = 0 THEN FZero
             ELSE IF c = 1 THEN FRound(x.neg, BSub(mx, my), e, FALSE)
             ELSE FRound(y.neg, BSub(my, mx), e, FALSE)

FSub(x, y) == FAdd(x, FNeg(y))

FMul(x, y) ==
    IF x.m = <<>> \/ y.m = <<>> THEN FZero
    ELSE LET zx == BLowZeros(x.m)
             zy == BLowZeros(y.m)
             ax == SubSeq(x.m, zx + 1, Len(x.m))
             ay == SubSeq(y.m, zy + 1, Len(y.m))
             p  == IF Len(ax) < Len(ay) THEN BMul(ay, ax) ELSE BMul(ax, ay)
         IN  FRound(x.neg # y.neg, p, x.e + y.e + zx + zy, FALSE)

\* The quotient p / q of two positive integers, correctly rounded: p and q
\* are scaled to q2 <= p2 < 2 * q2, long division produces the quotient bits
\* DivDigit bits at a time (1 + DivSteps * DivDigit > MantBits + 1 of them),
\* and what is left of the dividend is the sticky bit.  q2 * 2^DivDigit must
\* stay below 2^31.
RECURSIVE ScaleUp(_, _)
ScaleUp(a, b) == IF a >= b THEN 0 ELSE 1 + ScaleUp(2 * a, b)

DivDigit == 9

DivSteps == 6

RECURSIVE DivBits(_, _, _)
DivBits(r, q, n) ==
    IF n = 0 THEN [bits |-> <<>>, rem |-> r]
    ELSE LET digit == (r * 2^DivDigit) \div q
             next  == DivBits((r * 2^DivDigit) % q, q, n - 1)
         IN  [bits |-> next.bits \o [i \in 1..DivDigit |-> (digit \div 2^(i - 1)) % 2],
              rem  |-> next.rem]

FDivInt(neg, p, q, e) ==
    IF p = 0 THEN FZero
    ELSE LET a  == ScaleUp(p, q)
             p2 == p * 2^a
             b  == ScaleUp(q, p2 \div 2 + 1)
             q2 == q * 2^b
             d  == DivBits(p2 % q2, q2, DivSteps)
         IN  FRound(neg, d.bits \o <<1>>, e + b - a - DivSteps * DivDigit, d.rem # 0)

\* x / y for operands that are small integers times a power of two (word
\* counts, frame indices, sample counts, the literals 2 and 100)
FDiv(x, y) ==
    IF x.m = <<>> THEN FZero
    ELSE LET zx == BLowZeros(x.m)
             zy == BLowZeros(y.m)
             py == BToInt(SubSeq(y.m, zy + 1, Len(y.m)))
         IN  IF py = 1
             THEN [neg |-> x.neg # y.neg, m |-> x.m, e |-> x.e - y.e - zy]
             ELSE FDivInt(x.neg # y.neg, BToInt(SubSeq(x.m, zx + 1, Len(x.m))), py,
                          x.e + zx - y.e - zy)

\* the float a decimal literal p / q denotes (0.3 is Dec(3, 10))
Dec(p, q) == FDivInt(FALSE, p, q, 0)

FMax(x, y) == IF FLt(x, y) THEN y ELSE x

FMin(x, y) == IF FLt(y, x) THEN y ELSE x

(***************************************************************************)
(* Text.  A Python str is a sequence of characters; a character is a       *)
(* one-letter string (an accented letter is written with a following       *)
(* apostrophe: "i'" is i with an acute accent).                            *)
(***************************************************************************)
IsSpace(c) == c \in {" ", "\n", "\t"}

\* str.strip()
Strip(t) ==
    LET ink == {i \in 1..Len(t) : ~IsSpace(t[i])}
    IN  IF ink = {} THEN <<>> ELSE SubSeq(t, MinOf(ink), MaxOf(ink))

\* len(str): the number of characters
CountCharacters(t) == Len(t)

\* len(str.split()): the number of maximal runs of non-whitespace
WordCount(t) ==
    Cardinality({i \in 1..Len(t) : ~IsSpace(t[i]) /\ (i = 1 \/ IsSpace(t[i - 1]))})

UpperCase ==
    <<"A", "B", "C", "D", "E", "F", "G", "H", "I", "J", "K", "L", "M", "N", "O", "P", "Q", "R", "S", "T", "U", "V", "W", "X", "Y", "Z", "I'", "E'">>

LowerCase ==
    <<"a", "b", "c", "d", "e", "f", "g", "h", "i", "j", "k", "l", "m", "n", "o", "p", "q", "r", "s", "t", "u", "v", "w", "x", "y", "z", "i'", "e'">>

CaseMap(c, from, to) ==
    LET at == {k \in 1..Len(from) : from[k] = c}
    IN  IF at = {} THEN c ELSE to[CHOOSE k \in at : TRUE]

\* str.lower(), str.upper()
Lower(t) == [i \in 1..Len(t) |-> CaseMap(t[i], UpperCase, LowerCase)]

Upper(t) == [i \in 1..Len(t) |-> CaseMap(t[i], LowerCase, UpperCase)]

\* cue in text
Contains(t, cue) ==
    \E i \in 0..(Len(t) - Len(cue)) : \A k \in 1..Len(cue) : t[i + k] = cue[k]

\* sep.join(parts)
RECURSIVE Join(_, _)
Join(sep, parts) ==
    IF parts = <<>> THEN <<>>
    ELSE IF Len(parts) = 1 THEN parts[1]
    ELSE parts[1] \o sep \o Join(sep, Tail(parts))

\* the characters of the labels the program uses as speaker ids and roles
Chars(label) ==
    CASE label = "operator"      -> <<"o", "p", "e", "r", "a", "t", "o", "r">>
      [] label = "client"        -> <<"c", "l", "i", "e", "n", "t">>
      [] label = "speaker_1"     -> <<"s", "p", "e", "a", "k", "e", "r", "_", "1">>
      [] label = "speaker_2"     -> <<"s", "p", "e", "a", "k", "e", "r", "_", "2">>
      [] label = "speaker_3"     -> <<"s", "p", "e", "a", "k", "e", "r", "_", "3">>
      [] label = "channel_left"  -> <<"c", "h", "a", "n", "n", "e", "l", "_", "l", "e", "f", "t">>
      [] label = "channel_right" -> <<"c", "h", "a", "n", "n", "e", "l", "_", "r", "i", "g", "h", "t">>

OPERATOR_CUES ==
    << <<"l", "o", " ", "l", "l", "a", "m", "o", " ", "d", "e">>,
       <<"b", "u", "e", "n", "o", "s", " ", "d", "i", "a", "s">>,
       <<"b", "u", "e", "n", "o", "s", " ", "d", "i'", "a", "s">>,
       <<"m", "i", " ", "n", "o", "m", "b", "r", "e", " ", "e", "s">>,
       <<"h", "a", "b", "l", "a", " ", "c", "o", "n">>,
       <<"e", "n", " ", "q", "u", "e", " ", "p", "u", "e", "d", "o", " ", "a", "y", "u", "d", "a", "r">>,
       <<"s", "o", "y", " ", "d", "e", "l">> >>

CLIENT_CUES ==
    << <<"n", "o", " ", "p", "u", "e", "d", "o", " ", "p", "a", "g", "a", "r">>,
       <<"e", "s", "t", "o", "y", " ", "s", "i", "n", " ", "t", "r", "a", "b", "a", "j", "o">>,
       <<"n", "e", "c", "e", "s", "i", "t", "o", " ", "a", "y", "u", "d", "a">>,
       <<"n", "o", " ", "m", "e", " ", "c", "o", "b", "r", "a", "r", "o", "n", " ", "b", "i", "e", "n">>,
       <<"n", "o", " ", "t", "e", "n", "g", "o", " ", "d", "i", "n", "e", "r", "o">>,
       <<"n", "o", " ", "e", "s", "t", "o", "y", " ", "d", "e", " ", "a", "c", "u", "e", "r", "d", "o">> >>

(***************************************************************************)
(* scripts/lib_speaker.py: LightweightDiarizer                             *)
(*                                                                         *)
(* An audio clip is [samples, rms]: the number of samples librosa.load     *)
(* returns at 16 kHz and the frame energies librosa.feature.rms computes   *)
(* from them, one per hop (centered frames: 1 + samples \div hop_length of *)
(* them).  Energies are whole multiples of a unit far above the 1e-9 the   *)
(* code adds to the maximum.                                               *)
(***************************************************************************)
SampleRate == 16000

FrameMs == 32

HopMs == 16

HopLength == (SampleRate * HopMs) \div 1000

NumFrames(samples) == 1 + samples \div HopLength

RECURSIVE SumSeq(_)
SumSeq(s) == IF s = <<>> THEN 0 ELSE s[1] + SumSeq(Tail(s))

\* p / q for integers p >= 0, q > 0 (Python's true division)
IntDiv(p, q) == FDivInt(FALSE, p, q, 0)

\* energy >= threshold for frame i (1-based), where
\*   energy    = rms[i] / (max(rms) + 1e-9)
\*   threshold = max(0.5 * mean(rms / (max(rms) + 1e-9)), 0.05)
\* Multiplied through by the positive max(rms) + 1e-9:
\*   rms[i] >= 0.5 * sum(rms) / n   and   rms[i] >= 0.05 * (max(rms) + 1e-9)
IsVoiced(rms, i) ==
    /\ 2 * Len(rms) * rms[i] >= SumSeq(rms)
    /\ 20 * rms[i] > MaxOf({rms[k] : k \in 1..Len(rms)})

\* a segment that is always of speaker_1
BuildSegmentOneSpeaker(start_frame, end_frame, hop_length, sr, idx) ==
    [speaker    |-> "speaker_1",
     start      |-> IntDiv(start_frame * hop_length, sr),
     end        |-> IntDiv((end_frame + 1) * hop_length, sr),
     confidence |-> Dec(5, 10)]

\* a segment that ends one hop later
BuildSegmentOneHopLater(start_frame, end_frame, hop_length, sr, idx) ==
    [speaker    |-> IF idx % 2 = 0 THEN "speaker_1" ELSE "speaker_2",
     start      |-> IntDiv(start_frame * hop_length, sr),
     end        |-> IntDiv((end_frame + 2) * hop_length, sr),
     confidence |-> Dec(5, 10)]

\* a segment of a speaker numbered by its position
BuildSegmentNumbered(start_frame, end_frame, hop_length, sr, idx) ==
    [speaker    |-> IF idx = 0 THEN "speaker_1"
                    ELSE IF idx = 1 THEN "speaker_2" ELSE "speaker_3",
     start      |-> IntDiv(start_frame * hop_length, sr),
     end        |-> IntDiv((end_frame + 1) * hop_length, sr),
     confidence |-> Dec(5, 10)]

BuildSegment(start_frame, end_frame, hop_length, sr, idx) ==
    [speaker    |-> IF idx % 2 = 0 THEN "speaker_1" ELSE "speaker_2",
     start      |-> IntDiv(start_frame * hop_length, sr),
     end        |-> IntDiv((end_frame + 1) * hop_length, sr),
     confidence |-> Dec(5, 10)]

ScanInit == [segments |-> <<>>, active |-> FALSE, start_frame |-> 0, last_active_frame |-> 0]

\* one iteration of the loop over enumerate(rms_norm); idx counts from 0
ScanFrame(st, idx, voiced) ==
    LET s1 == IF voiced /\ ~st.active
              THEN [st EXCEPT !.active = TRUE, !.start_frame = idx] ELSE st
        s2 == IF voiced THEN [s1 EXCEPT !.last_active_frame = idx] ELSE s1
    IN  IF ~voiced /\ s2.active
        THEN [s2 EXCEPT !.segments = Append(@, BuildSegment(s2.start_frame,
                                               s2.last_active_frame, HopLength,
                                               SampleRate, Len(s2.segments))),
                        !.active = FALSE]
        ELSE s2

RECURSIVE ScanFrames(_, _, _)
ScanFrames(st, rms, idx) ==
    IF idx = Len(rms) THEN st
    ELSE ScanFrames(ScanFrame(st, idx, IsVoiced(rms, idx + 1)), rms, idx + 1)

\* a run still open after the loop, left open
LeaveOpenSegment(st) == st.segments

\* the trailing "if active" of diarize
CloseSegment(st) ==
    IF st.active
    THEN Append(st.segments, BuildSegment(st.start_frame, st.last_active_frame,
                                          HopLength, SampleRate, Len(st.segments)))
    ELSE st.segments

\* the segments after the loop and the trailing "if active"
VoicedSegments(audio) == CloseSegment(ScanFrames(ScanInit, audio.rms, 0))

SegmentsWithoutFallback(segments, audio) == segments

\* the "if not segments" fallback of diarize
SegmentsOrFallback(segments, audio) ==
    IF segments = <<>>
    THEN << [speaker |-> "speaker_1", start |-> FZero,
             end |-> IntDiv(audio.samples, SampleRate), confidence |-> Dec(2, 10)] >>
    ELSE segments

Diarize(audio) == SegmentsOrFallback(VoicedSegments(audio), audio)

(***************************************************************************)
(* scripts/lib_speaker.py: SpeakerRoleAnalyzer, the pure steps             *)
(***************************************************************************)
\* Python's None, where the other values are records
None == [none |-> TRUE]

\* the diarization segments whose interval holds the midpoint
MatchesAt(midpoint, diar_segments) ==
    {k \in 1..Len(diar_segments) :
        /\ FLe(diar_segments[k].start, midpoint)
        /\ FLe(midpoint, diar_segments[k].end)}

Matches(ws, diar_segments) ==
    MatchesAt(FDiv(FAdd(ws.start, ws.end), FromInt(2)), diar_segments)

\* the entry appended for ws, had the last match been taken
AlignedToLast(ws, diar_segments, hits) ==
    [speaker    |-> IF hits # {} THEN diar_segments[MaxOf(hits)].speaker
                    ELSE "speaker_1",
     start      |-> ws.start,
     end        |-> ws.end,
     text       |-> ws.text,
     confidence |-> IF hits # {} THEN diar_segments[MaxOf(hits)].confidence
                    ELSE Dec(3, 10)]

\* the entry appended for ws: the first match (next(..., None)), else the
\* defaults
AlignedTo(ws, diar_segments, hits) ==
    [speaker    |-> IF hits # {} THEN diar_segments[MinOf(hits)].speaker
                    ELSE "speaker_1",
     start      |-> ws.start,
     end        |-> ws.end,
     text       |-> ws.text,
     confidence |-> IF hits # {} THEN diar_segments[MinOf(hits)].confidence
                    ELSE Dec(3, 10)]

\* one iteration of the loop of _align_segments
AlignOne(ws, diar_segments) == AlignedTo(ws, diar_segments, Matches(ws, diar_segments))

RECURSIVE AlignLoop(_, _, _)
AlignLoop(aligned, whisper_segments, diar_segments) ==
    IF whisper_segments = <<>> THEN aligned
    ELSE AlignLoop(Append(aligned, AlignOne(whisper_segments[1], diar_segments)),
                   Tail(whisper_segments), diar_segments)

RECURSIVE AlignMatchedOnly(_, _, _)
AlignMatchedOnly(aligned, whisper_segments, diar_segments) ==
    IF whisper_segments = <<>> THEN aligned
    ELSE AlignMatchedOnly(IF Matches(whisper_segments[1], diar_segments) = {} THEN aligned
                          ELSE Append(aligned, AlignOne(whisper_segments[1], diar_segments)),
                          Tail(whisper_segments), diar_segments)

AlignSegmentsDroppingUnmatched(whisper_segments, diar_segments) ==
    AlignMatchedOnly(<<>>, whisper_segments, diar_segments)

AlignSegments(whisper_segments, diar_segments) ==
    AlignLoop(<<>>, whisper_segments, diar_segments)

\* one iteration of the first loop, had a new speaker gone to the front
AggregateOneInFront(bucket, seg) ==
    LET fresh == [speaker |-> seg.speaker, text |-> <<>>, duration |-> FZero,
                  segments |-> <<>>, word_count |-> 0]
        b1    == IF \E k \in 1..Len(bucket) : bucket[k].speaker = seg.speaker
                 THEN bucket ELSE <<fresh>> \o bucket
        at    == CHOOSE k \in 1..Len(b1) : b1[k].speaker = seg.speaker
    IN  [b1 EXCEPT ![at] =
            [@ EXCEPT !.text     = @ \o Strip(seg.text) \o <<" ">>,
                      !.duration = FAdd(@, FMax(FSub(seg.end, seg.start), FZero)),
                      !.segments = Append(@, seg)]]

\* one iteration of the first loop of _aggregate_by_speaker; the bucket is a
\* dict, which keeps its keys in insertion order
AggregateOne(bucket, seg) ==
    LET fresh == [speaker |-> seg.speaker, text |-> <<>>, duration |-> FZero,
                  segments |-> <<>>, word_count |-> 0]
        b1    == IF \E k \in 1..Len(bucket) : bucket[k].speaker = seg.speaker
                 THEN bucket ELSE Append(bucket, fresh)
        at    == CHOOSE k \in 1..Len(b1) : b1[k].speaker = seg.speaker
    IN  [b1 EXCEPT ![at] =
            [@ EXCEPT !.text     = @ \o Strip(seg.text) \o <<" ">>,
                      !.duration = FAdd(@, FMax(FSub(seg.end, seg.start), FZero)),
                      !.segments = Append(@, seg)]]

RECURSIVE AggregateLoop(_, _)
AggregateLoop(bucket, aligned_segments) ==
    IF aligned_segments = <<>> THEN bucket
    ELSE AggregateLoop(AggregateOne(bucket, aligned_segments[1]), Tail(aligned_segments))

\* the second loop: "Normalize and compute word counts"
NormalizeCountingFragments(entry) ==
    [entry EXCEPT !.text = Strip(entry.text), !.word_count = Len(entry.segments)]

Normalize(entry) ==
    [entry EXCEPT !.text = Strip(entry.text), !.word_count = WordCount(Strip(entry.text))]

\* list(bucket.values()) after the second loop
NormalizeAll(bucket) == [k \in 1..Len(bucket) |-> Normalize(bucket[k])]

AggregateBySpeaker(aligned_segments) == NormalizeAll(AggregateLoop(<<>>, aligned_segments))

CueCount(cues, text_lower) ==
    Cardinality({k \in 1..Len(cues) : Contains(text_lower, cues[k])})

\* a score from the order of the speakers alone, deaf to the cues
SpeakerScoreOrderOnly(idx, speaker_entry) ==
    IF idx = 0 THEN FAdd(FZero, Dec(3, 10)) ELSE FZero

\* the score without the bias of the first speaker
SpeakerScoreUnbiased(idx, speaker_entry) ==
    LET text_lower == Lower(speaker_entry.text)
        plus       == FAdd(FZero, FMul(FromInt(CueCount(OPERATOR_CUES, text_lower)),
                                       Dec(2, 10)))
    IN  FSub(plus, FMul(FromInt(CueCount(CLIENT_CUES, text_lower)), Dec(2, 10)))

\* the body of the scoring loop of _infer_roles; idx counts from 0
SpeakerScore(idx, speaker_entry) ==
    LET text_lower == Lower(speaker_entry.text)
        bias       == IF idx = 0 THEN FAdd(FZero, Dec(3, 10)) ELSE FZero
        plus       == FAdd(bias, FMul(FromInt(CueCount(OPERATOR_CUES, text_lower)),
                                      Dec(2, 10)))
    IN  FSub(plus, FMul(FromInt(CueCount(CLIENT_CUES, text_lower)), Dec(2, 10)))

\* scores: a dict keyed by speaker, as the sequence of its items.  A key keeps
\* the position of its first insertion and the value of its last.
Scores(transcript_by_speaker) ==
    LET n        == Len(transcript_by_speaker)
        firsts   == {i \in 1..n : \A j \in 1..(i - 1) :
                        transcript_by_speaker[j].speaker # transcript_by_speaker[i].speaker}
        last(sp) == MaxOf({i \in 1..n : transcript_by_speaker[i].speaker = sp})
        nth(k)   == CHOOSE i \in firsts : Cardinality({j \in firsts : j < i}) = k - 1
    IN  [k \in 1..Cardinality(firsts) |->
            [speaker |-> transcript_by_speaker[nth(k)].speaker,
             score   |-> SpeakerScore(last(transcript_by_speaker[nth(k)].speaker) - 1,
                                      transcript_by_speaker[
                                          last(transcript_by_speaker[nth(k)].speaker)])]]

\* the items of scores left in the order of the dict
UnsortedSpeakers(scores) == scores

\* sorted(scores.items(), key=score, reverse=True): a stable sort, items of
\* equal score keep their order
SortedSpeakers(scores) ==
    LET pos(i) == 1 + Cardinality({j \in 1..Len(scores) :
                        \/ FLt(scores[i].score, scores[j].score)
                        \/ (j < i /\ scores[j].score = scores[i].score)})
    IN  [p \in 1..Len(scores) |-> scores[CHOOSE i \in 1..Len(scores) : pos(i) = p]]

\* a confidence with the upper limit alone
ConfidenceWithoutFloor(operator_score, client_score) ==
    FMin(FSub(operator_score, client_score), Dec(95, 100))

ConfidenceUnclamped(operator_score, client_score) ==
    FSub(operator_score, client_score)

Confidence(operator_score, client_score) ==
    FMin(FMax(FSub(operator_score, client_score), Dec(2, 10)), Dec(95, 100))

\* the dict _infer_roles returns for two speakers or more
CueAndOrder(sorted_speakers, confidence) ==
    [operator   |-> sorted_speakers[1].speaker,
     client     |-> sorted_speakers[2].speaker,
     confidence |-> confidence,
     strategy   |-> "cue_and_order",
     uncertain  |-> FLt(confidence, Dec(5, 10))]

\* _infer_roles from sorted_speakers on
RolesOfSorted(sorted_speakers) ==
    CueAndOrder(sorted_speakers,
                Confidence(sorted_speakers[1].score, sorted_speakers[2].score))

\* _infer_roles once the scores are known, had a single speaker of negative
\* score been taken for the client
RolesOfScoresByCues(scores) ==
    IF Len(scores) = 1
    THEN [operator |-> IF scores[1].score.neg THEN "None" ELSE scores[1].speaker,
          client |-> IF scores[1].score.neg THEN scores[1].speaker ELSE "None",
          confidence |-> Dec(4, 10), strategy |-> "single_speaker",
          notes |-> "Solo se detecto' un hablante"]
    ELSE RolesOfSorted(SortedSpeakers(scores))

\* _infer_roles once the scores are known
RolesOfScores(scores) ==
    IF Len(scores) = 1
    THEN [operator |-> scores[1].speaker, client |-> "None",
          confidence |-> Dec(4, 10), strategy |-> "single_speaker",
          notes |-> "Solo se detecto' un hablante"]
    ELSE RolesOfSorted(SortedSpeakers(scores))

InferRoles(transcript_by_speaker) ==
    IF transcript_by_speaker = <<>>
    THEN [operator |-> "None", client |-> "None", confidence |-> FZero,
          strategy |-> "no_data"]
    ELSE RolesOfScores(Scores(transcript_by_speaker))

\* entry.get("role") or entry.get("speaker")
RoleOrSpeaker(entry) ==
    IF "role" \in DOMAIN entry THEN entry.role ELSE entry.speaker

\* entry.get("role")
RoleOf(entry) == IF "role" \in DOMAIN entry THEN entry.role ELSE "None"

LabeledLine(speaker_entry) ==
    <<"[">> \o Upper(Chars(RoleOrSpeaker(speaker_entry))) \o <<"]", " ">>
        \o Strip(speaker_entry.text)

RECURSIVE LabeledLines(_)
LabeledLines(transcript_by_speaker) ==
    IF transcript_by_speaker = <<>> THEN <<>>
    ELSE (IF Strip(transcript_by_speaker[1].text) = <<>> THEN <<>>
          ELSE <<LabeledLine(transcript_by_speaker[1])>>)
         \o LabeledLines(Tail(transcript_by_speaker))

BuildLabeledTranscript(transcript_by_speaker) ==
    Strip(Join(<<"\n">>, LabeledLines(transcript_by_speaker)))

\* the words the loop of _compute_speaking_balance adds up for a role
RECURSIVE RoleWords(_, _)
RoleWords(transcript_by_speaker, role) ==
    IF transcript_by_speaker = <<>> THEN 0
    ELSE (IF RoleOrSpeaker(transcript_by_speaker[1]) = role
          THEN transcript_by_speaker[1].word_count ELSE 0)
         + RoleWords(Tail(transcript_by_speaker), role)

PercentageOfAllWords(words, total) == FMul(IntDiv(words, total + 1), FromInt(100))

\* (words / total) * 100
Percentage(words, total) == FMul(IntDiv(words, total), FromInt(100))

\* the dict _compute_speaking_balance returns when total > 0
BalanceOf(operator_words, client_words, operator_pct, client_pct) ==
    [operator_percentage |-> operator_pct,
     client_percentage   |-> client_pct,
     operator_words      |-> operator_words,
     client_words        |-> client_words,
     unit                |-> "porcentaje",
     balance_quality     |-> IF FLe(FromInt(35), operator_pct)
                                /\ FLe(operator_pct, FromInt(55))
                             THEN "BUENO" ELSE "DESBALANCEADO"]

\* _compute_speaking_balance once the words are counted
BalanceOfWords(operator_words, client_words) ==
    IF operator_words + client_words = 0
    THEN [operator_percentage |-> FZero, client_percentage |-> FZero,
          balance_quality |-> "SIN_DATOS", note |-> "sin palabras"]
    ELSE BalanceOf(operator_words, client_words,
                   Percentage(operator_words, operator_words + client_words),
                   Percentage(client_words, operator_words + client_words))

ComputeSpeakingBalance(transcript_by_speaker) ==
    BalanceOfWords(RoleWords(transcript_by_speaker, "operator"),
                   RoleWords(transcript_by_speaker, "client"))

(***************************************************************************)
(* The collaborators.  A file is [decodable, loadable, channels, tracks]:   *)
(* what its decoders make of it, its channel count, and its audio: one     *)
(* track per                                                               *)
(* channel of a stereo file, else the one track librosa and Whisper hear.  *)
(* A track is [samples, rms, engine]; engine is what whisper's             *)
(* model.transcribe does with it: [kind, text, segments], kind "ok" or the *)
(* exception it raises.  A file just created is empty (no track).          *)
(* decodable: pydub's AudioSegment.from_file reads it; loadable:           *)
(* librosa.load reads it.                                                  *)
(***************************************************************************)
EmptyFile == [decodable |-> FALSE, loadable |-> FALSE, channels |-> 0, tracks |-> <<>>]

MonoFile(track) == [decodable |-> TRUE, loadable |-> TRUE, channels |-> 1, tracks |-> <<track>>]

StripSegment(seg) == [start |-> seg.start, end |-> seg.end, text |-> Strip(seg.text)]

\* WhisperTranscriber.transcribe_file on a file that exists
TranscribeContent(file, with_segments) ==
    IF file.tracks = <<>> THEN None
    ELSE LET track  == file.tracks[1]
             result == track.engine
         IN  IF result.kind # "ok" THEN None
             ELSE IF result.text = <<>> THEN None
             ELSE [none     |-> FALSE,
                   text     |-> result.text,
                   duration |-> IntDiv(track.samples, SampleRate),
                   segments |-> IF with_segments
                                THEN [k \in 1..Len(result.segments) |->
                                         StripSegment(result.segments[k])]
                                ELSE <<>>]

TranscribeFile(fs, audio_path, with_segments) ==
    IF audio_path \notin DOMAIN fs THEN None
    ELSE TranscribeContent(fs[audio_path], with_segments)

\* the exception model.transcribe raises inside transcribe_file, or "none"
EngineFailure(fs, audio_path) ==
    IF audio_path \in DOMAIN fs /\ fs[audio_path].tracks # <<>>
       /\ fs[audio_path].tracks[1].engine.kind # "ok"
    THEN fs[audio_path].tracks[1].engine.kind
    ELSE "none"

\* LocalSentimentAnalyzer.analyze_text; classifier is what the transformers
\* pipeline does when called: a normalized label, or the exception it raises.
\* The score and confidence of a successful verdict are the classifier's own
\* and are left out.
AnalyzeText(text, classifier) ==
    IF text = <<>>
    THEN [overall |-> "unknown", score |-> FZero, confidence |-> FZero]
    ELSE IF Strip(text) = <<>>
    THEN [overall |-> "neutral", score |-> Dec(5, 10), confidence |-> FZero]
    ELSE IF classifier = "RuntimeError"
    THEN [overall |-> "unknown", score |-> FZero, confidence |-> FZero]
    ELSE IF classifier = "Exception"
    THEN [overall |-> "unknown", score |-> Dec(5, 10), confidence |-> FZero]
    ELSE [overall |-> classifier, raw_label |-> classifier]

\* the exception the classifier raises inside analyze_text, or "none"
ClassifierFailure(text, classifier) ==
    IF Strip(text) # <<>> /\ classifier \in {"RuntimeError", "Exception"}
    THEN classifier ELSE "none"

RECURSIVE RoleTexts(_, _)
RoleTexts(transcript_by_speaker, role) ==
    IF transcript_by_speaker = <<>> THEN <<>>
    ELSE (IF RoleOf(transcript_by_speaker[1]) = role
          THEN <<transcript_by_speaker[1].text>> ELSE <<>>)
         \o RoleTexts(Tail(transcript_by_speaker), role)

\* the texts _sentiment_for_roles hands to analyze_text, in call order
SentimentTexts(transcript_by_speaker, combined_text) ==
    LET operator_text == Join(<<" ">>, RoleTexts(transcript_by_speaker, "operator"))
        client_text   == Join(<<" ">>, RoleTexts(transcript_by_speaker, "client"))
    IN  (IF operator_text # <<>> THEN <<operator_text>> ELSE <<>>)
        \o (IF client_text # <<>> THEN <<client_text>> ELSE <<>>)
        \o <<combined_text>>

SentimentForRoles(transcript_by_speaker, combined_text, classifier) ==
    LET operator_text == Join(<<" ">>, RoleTexts(transcript_by_speaker, "operator"))
        client_text   == Join(<<" ">>, RoleTexts(transcript_by_speaker, "client"))
    IN  [operator |-> IF operator_text # <<>>
                      THEN AnalyzeText(operator_text, classifier) ELSE None,
         client   |-> IF client_text # <<>>
                      THEN AnalyzeText(client_text, classifier) ELSE None,
         overall  |-> AnalyzeText(combined_text, classifier)]

(***************************************************************************)
(* scripts/lib_speaker.py: what process_audio builds on each path          *)
(***************************************************************************)
\* detect_audio_profile: pydub's channel count and len(audio) / 1000.0,
\* len(audio) being the duration in whole milliseconds
AudioProfile(file) ==
    [channels         |-> file.channels,
     duration_seconds |-> IntDiv((1000 * file.tracks[1].samples) \div SampleRate, 1000)]

StereoTranscripts(operator_tx, client_tx) ==
    << [speaker |-> "channel_left", role |-> "operator", text |-> operator_tx.text,
        duration |-> operator_tx.duration, word_count |-> WordCount(operator_tx.text)],
       [speaker |-> "channel_right", role |-> "client", text |-> client_tx.text,
        duration |-> client_tx.duration, word_count |-> WordCount(client_tx.text)] >>

StereoRoleMappingSwapped ==
    [operator |-> "channel_right", client |-> "channel_left",
     confidence |-> Dec(95, 100), strategy |-> "stereo_channel_mapping",
     notes |-> "Canal izquierdo forzado a operador por policy"]

StereoRoleMapping ==
    [operator |-> "channel_left", client |-> "channel_right",
     confidence |-> Dec(95, 100), strategy |-> "stereo_channel_mapping",
     notes |-> "Canal izquierdo forzado a operador por policy"]

\* the dict process_audio returns (filename, language, model_used and
\* device_used, which no step reads, are left out)
ResultDict(segments, transcript_by_speaker, role_mapping, combined_text, sentiment, profile, speaking_balance) ==
    [transcript |->
        [text                  |-> combined_text,
         char_count            |-> Len(combined_text),
         segments              |-> segments,
         transcript_by_speaker |-> transcript_by_speaker,
         role_mapping          |-> role_mapping,
         speaking_balance      |-> speaking_balance,
         sentiment_by_role     |-> sentiment],
     audio_profile |-> profile,
     speaker_summary |->
        [speakers          |-> transcript_by_speaker,
         role_mapping      |-> role_mapping,
         sentiment_by_role |-> sentiment,
         speaking_balance  |-> speaking_balance,
         audio_profile     |-> profile]]

\* the speaking balance and the dict, on either path
Assemble(segments, transcript_by_speaker, role_mapping, combined_text, sentiment, profile) ==
    ResultDict(segments, transcript_by_speaker, role_mapping, combined_text, sentiment,
               profile, ComputeSpeakingBalance(transcript_by_speaker))

(***************************************************************************)
(* The inputs: what the transcripts say, what the clips sound like.        *)
(***************************************************************************)
TxtBlank == <<" ">>

TxtHola == <<"H", "o", "l", "a", " ", "b", "u", "e", "n", "o", "s", " ", "d", "i'", "a", "s">>

TxtNecesito == <<"n", "e", "c", "e", "s", "i", "t", "o", " ", "a", "y", "u", "d", "a">>

TxtSaludo == <<" ", "B", "u", "e", "n", "o", "s", " ", "d", "i", "a", "s", ",", " ", "m", "i", " ", "n", "o", "m", "b", "r", "e", " ", "e", "s", " ", "A", "n", "a">>

TxtPagar == <<" ", "n", "o", " ", "p", "u", "e", "d", "o", " ", "p", "a", "g", "a", "r", ",", " ", "n", "o", " ", "t", "e", "n", "g", "o", " ", "d", "i", "n", "e", "r", "o">>

\* whisper reports times in steps of 0.02 s
Tick(k) == Dec(2 * k, 100)

Seg(a, b, text) == [start |-> Tick(a), end |-> Tick(b), text |-> text]

\* the text of a whisper result is the concatenation of its segments' texts
RECURSIVE ConcatTexts(_)
ConcatTexts(segments) ==
    IF segments = <<>> THEN <<>> ELSE segments[1].text \o ConcatTexts(Tail(segments))

Heard(segments) == [kind |-> "ok", text |-> ConcatTexts(segments), segments |-> segments]

Said(text) == Heard(<<Seg(0, 1, text)>>)

Raises(kind) == [kind |-> kind, text |-> <<>>, segments |-> <<>>]

\* the longest clip has MaxFrames analysis frames
MaxFrames == 3

EnergyLevels == {0, 1, 4}

Clips ==
    UNION {{[samples |-> (n - 1) * HopLength + 88, rms |-> rms] :
               rms \in [1..n -> EnergyLevels]} : n \in 1..MaxFrames}

ChannelEngines ==
    {Said(<<>>), Said(TxtBlank), Said(TxtHola), Said(TxtNecesito),
     Raises("RuntimeError"), Raises("Exception")}

MonoEngines ==
    {Heard(<<>>),
     Heard(<<Seg(0, 1, TxtSaludo)>>),
     Heard(<<Seg(0, 1, TxtSaludo), Seg(1, 3, TxtPagar)>>),
     Heard(<<Seg(0, 1, TxtPagar), Seg(2, 2, TxtBlank), Seg(1, 3, TxtSaludo)>>),
     Heard(<<Seg(1, 3, TxtHola), Seg(2, 3, <<>>), Seg(0, 0, TxtNecesito)>>),
     Raises("RuntimeError"), Raises("Exception")}

ChannelClip == [samples |-> 2 * HopLength, rms |-> <<1, 1, 1>>]

Track(clip, engine) == [samples |-> clip.samples, rms |-> clip.rms, engine |-> engine]

StereoFiles ==
    {[decodable |-> TRUE, loadable |-> TRUE, channels |-> 2,
      tracks |-> <<Track(ChannelClip, l), Track(ChannelClip, r)>>] :
        l \in ChannelEngines, r \in ChannelEngines}

MonoFiles ==
    {[decodable |-> TRUE, loadable |-> TRUE, channels |-> 1, tracks |-> <<Track(c, e)>>] :
        c \in Clips, e \in MonoEngines}

OtherFiles ==
    {[decodable |-> FALSE, loadable |-> FALSE, channels |-> 1,
      tracks |-> <<Track(ChannelClip, Said(TxtHola))>>],
     [decodable |-> TRUE, loadable |-> TRUE, channels |-> 3,
      tracks |-> <<Track([samples |-> 2 * HopLength, rms |-> <<4, 0, 4>>],
                         Heard(<<Seg(0, 1, TxtSaludo), Seg(1, 3, TxtPagar)>>))>>]}

\* a file pydub decodes and librosa.load cannot read
UnreadableFiles ==
    {[decodable |-> TRUE, loadable |-> FALSE, channels |-> 1,
      tracks |-> <<Track(ChannelClip, Said(TxtHola))>>]}

AudioFiles == StereoFiles \cup MonoFiles \cup OtherFiles \cup UnreadableFiles

Classifiers == {"positive", "RuntimeError", "Exception"}

\* the files two concurrent calls are given
SharedRunFiles ==
    {f \in StereoFiles :
        /\ f.tracks[1].engine \in {Said(TxtHola), Said(TxtNecesito), Raises("RuntimeError")}
        /\ f.tracks[2].engine \in {Said(TxtHola), Said(TxtNecesito)}}
    \cup {f \in MonoFiles :
        /\ f.tracks[1].rms \in {<<1, 0, 1>>, <<0, 0>>}
        /\ f.tracks[1].engine = Heard(<<Seg(0, 1, TxtSaludo), Seg(1, 3, TxtPagar)>>)}
    \cup {f \in OtherFiles : ~f.decodable}

(***************************************************************************)
(* The state.  Each thread of the pipeline's pool runs one process_audio   *)
(* call on the one SpeakerRoleAnalyzer; what the calls share is the file   *)
(* system.                                                                 *)
(***************************************************************************)
VARIABLES
    files,       \* the file system: path -> file
    next_tmp,    \* tempfile's source of names not yet in use
    classifiers, \* what the sentiment classifier may do when it is called
    classifier,  \* per thread: what the sentiment classifier does in its call
    pc,          \* per thread: where its process_audio call is
    local,       \* per thread: the local variables of the call
    result,      \* per thread: what process_audio returned
    exc,         \* per thread: the exception process_audio raised
    failure,     \* per thread: the first exception a collaborator raised
    calls,       \* per thread: the calls made to collaborators, in order
    f_in,        \* the arguments of a function run on its own
    f_out        \* and its result

vars == <<files, next_tmp, classifiers, classifier, pc, local, result, exc, failure, calls, f_in, f_out>>

Threads == {1, 2}

AudioPath(t) == <<t, "audio.wav">>

FixedTempName(seq, suffix) == <<0, suffix>>

\* tempfile.NamedTemporaryFile(suffix=..., delete=False).name
TempName(seq, suffix) == <<seq, suffix>>

WriteFile(fs, path, file) == (path :> file) @@ fs

NoPath == <<0, "">>

NoLocals ==
    [profile |-> None, left_path |-> NoPath, right_path |-> NoPath,
     operator_tx |-> None, client_tx |-> None, diar_segments |-> <<>>,
     whisper_result |-> None, aligned_segments |-> <<>>,
     transcript_by_speaker |-> <<>>, role_mapping |-> None,
     combined_text |-> <<>>, sentiment |-> None]

Pending == [pending |-> TRUE]

InitCalls(running) ==
    /\ next_tmp = 1
    /\ classifier = [t \in Threads |-> "positive"]
    /\ pc = [t \in Threads |-> IF t \in running THEN "call" ELSE "off"]
    /\ local = [t \in Threads |-> NoLocals]
    /\ result = [t \in Threads |-> None]
    /\ exc = [t \in Threads |-> "none"]
    /\ failure = [t \in Threads |-> "none"]
    /\ calls = [t \in Threads |-> <<>>]
    /\ f_in = None
    /\ f_out = None

\* one call
Init ==
    /\ \E f \in AudioFiles : files = (AudioPath(1) :> f)
    /\ classifiers = Classifiers
    /\ InitCalls({1})

\* two calls at once, as ThreadPoolExecutor runs them
InitConcurrent ==
    /\ \E f \in SharedRunFiles, g \in SharedRunFiles :
           files = (AudioPath(1) :> f) @@ (AudioPath(2) :> g)
    /\ classifiers = {"positive"}
    /\ InitCalls(Threads)

Goto(t, label) == pc' = [pc EXCEPT ![t] = label]

Raise(t, error) ==
    /\ pc' = [pc EXCEPT ![t] = "raised"]
    /\ exc' = [exc EXCEPT ![t] = error]

Called(t, call) == calls' = [calls EXCEPT ![t] = Append(@, call)]

NoteFailure(t, error) ==
    failure' = [failure EXCEPT ![t] = IF @ = "none" THEN error ELSE @]

\* process_audio: is_stereo sends the call to _process_stereo, anything else
\* to _process_mono
RouteAlwaysMono(channels) == "diarize"

Route(channels) == IF channels = 2 THEN "split" ELSE "diarize"

\* process_audio, to the routing
DetectProfile(t) ==
    /\ pc[t] = "call"
    /\ Called(t, [op |-> "detect_audio_profile"])
    /\ IF ~files[AudioPath(t)].decodable
       THEN /\ Raise(t, "CouldntDecodeError")
            /\ UNCHANGED local
       ELSE /\ local' = [local EXCEPT ![t].profile = AudioProfile(files[AudioPath(t)])]
            /\ Goto(t, Route(files[AudioPath(t)].channels))
            /\ UNCHANGED exc
    /\ UNCHANGED <<files, next_tmp, classifiers, classifier, result, failure, f_in, f_out>>

\* split_stereo_channels: the two NamedTemporaryFile calls
CreateTemps(t) ==
    /\ pc[t] = "split"
    /\ Called(t, [op |-> "split_stereo_channels"])
    /\ LET left_tmp  == TempName(next_tmp, "_left.wav")
           right_tmp == TempName(next_tmp + 1, "_right.wav")
       IN  /\ files' = WriteFile(WriteFile(files, left_tmp, EmptyFile), right_tmp, EmptyFile)
           /\ local' = [local EXCEPT ![t].left_path = left_tmp,
                                     ![t].right_path = right_tmp]
    /\ next_tmp' = next_tmp + 2
    /\ Goto(t, "export")
    /\ UNCHANGED <<classifiers, classifier, result, exc, failure, f_in, f_out>>

\* split_stereo_channels: the two exports, and the return
ExportChannels(t) ==
    /\ pc[t] = "export"
    /\ LET audio == files[AudioPath(t)]
       IN  files' = WriteFile(WriteFile(files, local[t].left_path, MonoFile(audio.tracks[1])),
                              local[t].right_path, MonoFile(audio.tracks[2]))
    /\ Goto(t, "transcribe_left")
    /\ UNCHANGED <<next_tmp, classifiers, classifier, local, result, exc, failure, calls, f_in, f_out>>

TranscribeLeft(t) ==
    /\ pc[t] = "transcribe_left"
    /\ Called(t, [op |-> "transcribe_file", path |-> local[t].left_path,
                  with_segments |-> FALSE])
    /\ local' = [local EXCEPT ![t].operator_tx =
                    TranscribeFile(files, local[t].left_path, FALSE)]
    /\ NoteFailure(t, EngineFailure(files, local[t].left_path))
    /\ Goto(t, "transcribe_right")
    /\ UNCHANGED <<files, next_tmp, classifiers, classifier, result, exc, f_in, f_out>>

TranscribeRight(t) ==
    /\ pc[t] = "transcribe_right"
    /\ Called(t, [op |-> "transcribe_file", path |-> local[t].right_path,
                  with_segments |-> FALSE])
    /\ local' = [local EXCEPT ![t].client_tx =
                    TranscribeFile(files, local[t].right_path, FALSE)]
    /\ NoteFailure(t, EngineFailure(files, local[t].right_path))
    /\ Goto(t, "stereo_build")
    /\ UNCHANGED <<files, next_tmp, classifiers, classifier, result, exc, f_in, f_out>>

\* _process_stereo: combined_text and role_mapping
StereoRoles(l, transcript_by_speaker) ==
    [l EXCEPT !.transcript_by_speaker = transcript_by_speaker,
              !.combined_text = BuildLabeledTranscript(transcript_by_speaker),
              !.role_mapping = StereoRoleMapping]

\* _process_stereo from transcript_by_speaker to role_mapping; .get on a
\* None transcription raises AttributeError
StereoBuild(t) ==
    /\ pc[t] = "stereo_build"
    /\ IF local[t].operator_tx = None \/ local[t].client_tx = None
       THEN /\ Raise(t, "AttributeError")
            /\ UNCHANGED local
       ELSE /\ local' = [local EXCEPT ![t] =
                   StereoRoles(@, StereoTranscripts(local[t].operator_tx,
                                                    local[t].client_tx))]
            /\ Goto(t, "sentiment")
            /\ UNCHANGED exc
    /\ UNCHANGED <<files, next_tmp, classifiers, classifier, result, failure, calls, f_in, f_out>>

\* _process_mono: self.diarizer.diarize(audio_path); what librosa.load
\* raises leaves the call
DiarizeAudio(t) ==
    /\ pc[t] = "diarize"
    /\ Called(t, [op |-> "diarize"])
    /\ IF ~files[AudioPath(t)].loadable
       THEN /\ Raise(t, "NoBackendError")
            /\ UNCHANGED local
       ELSE /\ local' = [local EXCEPT ![t].diar_segments =
                   Diarize(files[AudioPath(t)].tracks[1])]
            /\ Goto(t, "transcribe_mono")
            /\ UNCHANGED exc
    /\ UNCHANGED <<files, next_tmp, classifiers, classifier, result, failure, f_in, f_out>>

TranscribeMono(t) ==
    /\ pc[t] = "transcribe_mono"
    /\ Called(t, [op |-> "transcribe_file", path |-> AudioPath(t), with_segments |-> TRUE])
    /\ local' = [local EXCEPT ![t].whisper_result =
                    TranscribeFile(files, AudioPath(t), TRUE)]
    /\ NoteFailure(t, EngineFailure(files, AudioPath(t)))
    /\ Goto(t, "mono_build")
    /\ UNCHANGED <<files, next_tmp, classifiers, classifier, result, exc, f_in, f_out>>

\* _process_mono without the role inference
MonoRolesNotInferred(l, transcript_by_speaker) ==
    [l EXCEPT !.transcript_by_speaker = transcript_by_speaker,
              !.combined_text = BuildLabeledTranscript(transcript_by_speaker)]

\* _process_mono from transcript_by_speaker to combined_text
MonoRoles(l, transcript_by_speaker) ==
    [l EXCEPT !.transcript_by_speaker = transcript_by_speaker,
              !.role_mapping = InferRoles(transcript_by_speaker),
              !.combined_text = BuildLabeledTranscript(transcript_by_speaker)]

\* _process_mono from aligned_segments on
MonoAligned(l, aligned_segments) ==
    MonoRoles([l EXCEPT !.aligned_segments = aligned_segments],
              AggregateBySpeaker(aligned_segments))

\* _process_mono from whisper_segments to combined_text; .get on a None
\* transcription raises AttributeError
MonoBuild(t) ==
    /\ pc[t] = "mono_build"
    /\ IF local[t].whisper_result = None
       THEN /\ Raise(t, "AttributeError")
            /\ UNCHANGED local
       ELSE /\ local' = [local EXCEPT ![t] =
                   MonoAligned(@, AlignSegments(local[t].whisper_result.segments,
                                                local[t].diar_segments))]
            /\ Goto(t, "sentiment")
            /\ UNCHANGED exc
    /\ UNCHANGED <<files, next_tmp, classifiers, classifier, result, failure, calls, f_in, f_out>>

RECURSIVE FirstFailure(_, _)
FirstFailure(texts, cls) ==
    IF texts = <<>> THEN "none"
    ELSE IF ClassifierFailure(texts[1], cls) # "none" THEN ClassifierFailure(texts[1], cls)
    ELSE FirstFailure(Tail(texts), cls)

\* _sentiment_for_roles, on either path; the classifier behaves in one of
\* the ways it may
Sentiment(t) ==
    /\ pc[t] = "sentiment"
    /\ \E cls \in classifiers :
        LET texts == SentimentTexts(local[t].transcript_by_speaker, local[t].combined_text)
        IN  /\ classifier' = [classifier EXCEPT ![t] = cls]
            /\ calls' = [calls EXCEPT ![t] =
                   @ \o [k \in 1..Len(texts) |-> [op |-> "analyze_text", text |-> texts[k]]]]
            /\ NoteFailure(t, FirstFailure(texts, cls))
            /\ local' = [local EXCEPT ![t].sentiment =
                   SentimentForRoles(local[t].transcript_by_speaker,
                                     local[t].combined_text, cls)]
    /\ Goto(t, "assemble")
    /\ UNCHANGED <<files, next_tmp, classifiers, result, exc, f_in, f_out>>

\* the speaking balance, the result dicts and the return, on either path
Return(t) ==
    /\ pc[t] = "assemble"
    /\ result' = [result EXCEPT ![t] =
           Assemble(local[t].aligned_segments, local[t].transcript_by_speaker,
                    local[t].role_mapping, local[t].combined_text, local[t].sentiment,
                    local[t].profile)]
    /\ Goto(t, "returned")
    /\ UNCHANGED <<files, next_tmp, classifiers, classifier, local, exc, failure, calls, f_in, f_out>>

Next ==
    \E t \in Threads :
        \/ DetectProfile(t)
        \/ CreateTemps(t)
        \/ ExportChannels(t)
        \/ TranscribeLeft(t)
        \/ TranscribeRight(t)
        \/ StereoBuild(t)
        \/ DiarizeAudio(t)
        \/ TranscribeMono(t)
        \/ MonoBuild(t)
        \/ Sentiment(t)
        \/ Return(t)

Spec == Init /\ [][Next]_vars

SpecConcurrent == InitConcurrent /\ [][Next]_vars

(***************************************************************************)
(* The functions of SpeakerRoleAnalyzer and LightweightDiarizer run on     *)
(* their own: the arguments are drawn in the initial state and one step    *)
(* applies the function.                                                   *)
(***************************************************************************)
InitFunction(inputs) ==
    /\ files = (AudioPath(1) :> EmptyFile)
    /\ next_tmp = 1
    /\ classifiers = {"positive"}
    /\ classifier = [t \in Threads |-> "positive"]
    /\ pc = [t \in Threads |-> "off"]
    /\ local = [t \in Threads |-> NoLocals]
    /\ result = [t \in Threads |-> None]
    /\ exc = [t \in Threads |-> "none"]
    /\ failure = [t \in Threads |-> "none"]
    /\ calls = [t \in Threads |-> <<>>]
    /\ f_in \in inputs
    /\ f_out = Pending

Apply(value) ==
    /\ f_out = Pending
    /\ f_out' = [pending |-> FALSE, value |-> value]
    /\ UNCHANGED <<files, next_tmp, classifiers, classifier, pc, local, result, exc,
                   failure, calls, f_in>>

Applied == f_out # Pending

\* _compute_speaking_balance on up to MaxEntries entries of up to MaxWords words
MaxEntries == 2

MaxWords == 3

BalanceEntries ==
    {[speaker |-> "channel_left", role |-> r, word_count |-> w] :
        r \in {"operator", "client"}, w \in 0..MaxWords}
    \cup {[speaker |-> sp, word_count |-> w] :
        sp \in {"speaker_1", "operator"}, w \in 0..MaxWords}

BalanceInputs == UNION {[1..n -> BalanceEntries] : n \in 0..MaxEntries}

ApplyBalance == Apply(ComputeSpeakingBalance(f_in))

SpecBalance == InitFunction(BalanceInputs) /\ [][ApplyBalance]_vars

\* _align_segments on up to MaxSegments transcript segments and the
\* diarizations of a few clips, or none
MaxSegments == 3

AlignWhisperSegments ==
    {Seg(0, 1, TxtHola), Seg(1, 3, TxtNecesito), Seg(2, 2, TxtBlank), Seg(1, 1, TxtPagar)}

AlignDiarizations ==
    {<<>>} \cup {Diarize([samples |-> 2 * HopLength + 88, rms |-> rms]) :
                    rms \in {<<0, 0, 0>>, <<1, 0, 1>>, <<0, 4, 4>>}}

AlignInputs ==
    {[whisper_segments |-> w, diar_segments |-> d] :
        w \in UNION {[1..n -> AlignWhisperSegments] : n \in 0..MaxSegments},
        d \in AlignDiarizations}

ApplyAlign == Apply(AlignSegments(f_in.whisper_segments, f_in.diar_segments))

SpecAlign == InitFunction(AlignInputs) /\ [][ApplyAlign]_vars

\* the role mapping of either path, for up to MaxSpeakers speakers each
\* saying up to MaxCues cue phrases of either list
MaxSpeakers == 2

MaxCues == 2

CueText(operator_cues, client_cues) ==
    Join(<<" ">>, SubSeq(OPERATOR_CUES, 1, operator_cues)
                  \o SubSeq(CLIENT_CUES, 1, client_cues))

CueTexts == {CueText(i, j) : i \in 0..MaxCues, j \in 0..MaxCues}

SpeakerLabel(k) == IF k = 1 THEN "speaker_1" ELSE IF k = 2 THEN "speaker_2" ELSE "speaker_3"

SpokenBy(texts) ==
    [k \in 1..Len(texts) |->
        [speaker |-> SpeakerLabel(k), text |-> texts[k], word_count |-> WordCount(texts[k])]]

RolesInputs ==
    {[stereo |-> FALSE, transcript_by_speaker |-> SpokenBy(texts)] :
        texts \in UNION {[1..n -> CueTexts] : n \in 0..MaxSpeakers}}
    \cup {[stereo |-> TRUE,
           transcript_by_speaker |->
               StereoTranscripts([text |-> l, duration |-> FZero],
                                 [text |-> r, duration |-> FZero])] :
            l \in CueTexts \ {<<>>}, r \in CueTexts \ {<<>>}}

\* role_mapping as _process_stereo sets it and as _process_mono infers it
RoleMappingOf(input) ==
    IF input.stereo THEN StereoRoleMapping ELSE InferRoles(input.transcript_by_speaker)

ApplyRoles == Apply(RoleMappingOf(f_in))

SpecRoles == InitFunction(RolesInputs) /\ [][ApplyRoles]_vars

\* diarize on clips of up to MaxFrames frames
DiarizeLevels == {0, 1, 4, 30}

DiarizeClips ==
    UNION {{[samples |-> (n - 1) * HopLength + extra, rms |-> rms] :
               rms \in [1..n -> DiarizeLevels], extra \in {7, 255}} : n \in 1..MaxFrames}

ApplyDiarize == Apply(Diarize(f_in))

SpecDiarize == InitFunction(DiarizeClips) /\ [][ApplyDiarize]_vars

\* _infer_roles on the transcripts of up to MaxSpeakers speakers, each saying
\* one of a few sentences
TxtAgente == <<"B", "u", "e", "n", "o", "s", " ", "d", "i'", "a", "s", ",", " ", "m", "i", " ", "n", "o", "m", "b", "r", "e", " ", "e", "s", " ", "A", "n", "a", ",", " ", "?'", "e", "n", " ", "q", "u", "e'", " ", "p", "u", "e", "d", "o", " ", "a", "y", "u", "d", "a", "r", "?">>

TxtCuota == <<"N", "o", " ", "p", "u", "e", "d", "o", " ", "p", "a", "g", "a", "r", " ", "l", "a", " ", "c", "u", "o", "t", "a", " ", "e", "s", "t", "e", " ", "m", "e", "s">>

InferTexts == {TxtAgente, TxtCuota, TxtSaludo, TxtPagar, TxtHola, TxtNecesito, TxtBlank}

InferInputs == {SpokenBy(texts) : texts \in UNION {[1..n -> InferTexts] : n \in 0..MaxSpeakers}}

ApplyInfer == Apply(InferRoles(f_in))

SpecInfer == InitFunction(InferInputs) /\ [][ApplyInfer]_vars

(***************************************************************************)
(* LightweightDiarizer.diarize frame by frame: f_out holds the position of *)
(* the loop over enumerate(rms_norm), the loop's variables and the sum and *)
(* the maximum of rms behind rms_norm and threshold, computed before the   *)
(* loop.  The last step is the trailing "if active" and the fallback.      *)
(***************************************************************************)
RECURSIVE SumRange(_, _, _)
SumRange(s, a, b) ==
    IF a > b THEN 0
    ELSE IF a = b THEN s[a]
    ELSE SumRange(s, a, (a + b) \div 2) + SumRange(s, (a + b) \div 2 + 1, b)

\* IsVoiced with the sum and the maximum of rms at hand
IsVoicedOf(rms, total, peak, i) ==
    /\ 2 * Len(rms) * rms[i] >= total
    /\ 20 * rms[i] > peak

\* a 45-second clip of steady speech, held by its length and its one level
SteadyClip == [samples |-> 45 * SampleRate, level |-> 1]

\* the frame energies librosa.feature.rms returns for a clip
Rms(audio) ==
    IF "rms" \in DOMAIN audio THEN audio.rms
    ELSE [i \in 1..NumFrames(audio.samples) |-> audio.level]

ScanLevels(rms) ==
    [pending |-> TRUE, idx |-> 0, scan |-> ScanInit, frames |-> Len(rms),
     total |-> SumRange(rms, 1, Len(rms)),
     peak |-> MaxOf({rms[k] : k \in 1..Len(rms)})]

ScanStart(audio) == ScanLevels(Rms(audio))

InitScan(clips) ==
    /\ files = (AudioPath(1) :> EmptyFile)
    /\ next_tmp = 1
    /\ classifiers = {"positive"}
    /\ classifier = [t \in Threads |-> "positive"]
    /\ pc = [t \in Threads |-> "off"]
    /\ local = [t \in Threads |-> NoLocals]
    /\ result = [t \in Threads |-> None]
    /\ exc = [t \in Threads |-> "none"]
    /\ failure = [t \in Threads |-> "none"]
    /\ calls = [t \in Threads |-> <<>>]
    /\ f_in \in clips
    /\ f_out = ScanStart(f_in)

\* one iteration of the loop
ScanStep ==
    /\ f_out.pending
    /\ f_out.idx < f_out.frames
    /\ f_out' = [f_out EXCEPT
                    !.idx = @ + 1,
                    !.scan = ScanFrame(@, f_out.idx,
                                 IsVoicedOf(Rms(f_in), f_out.total, f_out.peak, f_out.idx + 1))]
    /\ UNCHANGED <<files, next_tmp, classifiers, classifier, pc, local, result, exc,
                   failure, calls, f_in>>

\* the end of the loop: "if active", "if not segments", return
ScanReturn ==
    /\ f_out.pending
    /\ f_out.idx = f_out.frames
    /\ f_out' = [pending |-> FALSE,
                 value |-> SegmentsOrFallback(CloseSegment(f_out.scan), f_in)]
    /\ UNCHANGED <<files, next_tmp, classifiers, classifier, pc, local, result, exc,
                   failure, calls, f_in>>

NextScan == ScanStep \/ ScanReturn

\* diarize on the clips of SpecDiarize and on clips of up to MaxScanFrames
\* frames that are silent or loud
MaxScanFrames == 5

ScanClips ==
    DiarizeClips
    \cup UNION {{[samples |-> (n - 1) * HopLength + 7, rms |-> rms] :
                    rms \in [1..n -> {0, 4}]} : n \in 1..MaxScanFrames}

SpecScan == InitScan(ScanClips) /\ [][NextScan]_vars

\* diarize on the 45-second clip
SpecSteady == InitScan({SteadyClip}) /\ [][NextScan]_vars

\* process_audio as one step:
\* what a call on a stereo file ends with when nothing else runs
StereoAlone(file, cls, operator_tx, client_tx) ==
    IF operator_tx = None \/ client_tx = None
    THEN [raised |-> "AttributeError"]
    ELSE [returned |->
            Assemble(<<>>, StereoTranscripts(operator_tx, client_tx), StereoRoleMapping,
                     BuildLabeledTranscript(StereoTranscripts(operator_tx, client_tx)),
                     SentimentForRoles(StereoTranscripts(operator_tx, client_tx),
                         BuildLabeledTranscript(StereoTranscripts(operator_tx, client_tx)),
                         cls),
                     AudioProfile(file))]

\* what a call on a mono file ends with when nothing else runs
MonoAlone(file, cls, aligned_segments, transcript_by_speaker) ==
    [returned |->
        Assemble(aligned_segments, transcript_by_speaker,
                 InferRoles(transcript_by_speaker),
                 BuildLabeledTranscript(transcript_by_speaker),
                 SentimentForRoles(transcript_by_speaker,
                                   BuildLabeledTranscript(transcript_by_speaker), cls),
                 AudioProfile(file))]

OutcomeAlone(file, cls) ==
    IF ~file.decodable THEN [raised |-> "CouldntDecodeError"]
    ELSE IF file.channels = 2
    THEN StereoAlone(file, cls,
                     TranscribeContent(MonoFile(file.tracks[1]), FALSE),
                     TranscribeContent(MonoFile(file.tracks[2]), FALSE))
    ELSE IF ~file.loadable THEN [raised |-> "NoBackendError"]
    ELSE IF TranscribeContent(file, TRUE) = None THEN [raised |-> "AttributeError"]
    ELSE MonoAlone(file, cls,
                   AlignSegments(TranscribeContent(file, TRUE).segments,
                                 Diarize(file.tracks[1])),
                   AggregateBySpeaker(
                       AlignSegments(TranscribeContent(file, TRUE).segments,
                                     Diarize(file.tracks[1]))))

(***************************************************************************)
(* scripts/pipeline.py: PipelineOrchestrator.process_audio_file.  f_in is  *)
(* the call: the audio_path argument ("invalid" for a path that is empty   *)
(* or no string, "missing" for one that does not exist), the file behind   *)
(* it, the service_level argument and the sentiment classifier.  f_out is  *)
(* the position of the call and its result dict.  A collaborator that can  *)
(* raise does or does not, at the step that calls it.                      *)
(***************************************************************************)
valid_levels == {"basic", "standard", "advanced"}

\* the service_level argument as given, unknown levels included
ServiceLevelAsGiven(service_level) == service_level

\* lines 218-221
ServiceLevelOf(service_level) ==
    IF service_level \in valid_levels THEN service_level ELSE "standard"

PipelineFiles ==
    {f \in StereoFiles :
        <<f.tracks[1].engine, f.tracks[2].engine>>
            \in {<<Said(TxtHola), Said(TxtNecesito)>>, <<Said(TxtBlank), Said(TxtBlank)>>,
                 <<Raises("Exception"), Said(TxtNecesito)>>}}
    \cup OtherFiles

PipelineCalls ==
    {[audio_path |-> p, file |-> f, service_level |-> l, classifier |-> c] :
        p \in {"invalid", "missing", "present"}, f \in PipelineFiles,
        l \in valid_levels \cup {"premium"}, c \in {"positive", "Exception"}}

\* the result dict of lines 223-231, its data by its keys
NewResult(service_level) ==
    [service_level |-> service_level, status |-> "processing", steps_completed |-> <<>>,
     errors |-> <<>>, data |-> {}, call_id |-> FALSE]

InitPipeline ==
    /\ files = (AudioPath(1) :> EmptyFile)
    /\ next_tmp = 1
    /\ classifiers = {"positive"}
    /\ classifier = [t \in Threads |-> "positive"]
    /\ pc = [t \in Threads |-> "off"]
    /\ local = [t \in Threads |-> NoLocals]
    /\ result = [t \in Threads |-> None]
    /\ exc = [t \in Threads |-> "none"]
    /\ failure = [t \in Threads |-> "none"]
    /\ calls = [t \in Threads |-> <<>>]
    /\ f_in \in PipelineCalls
    /\ f_out = [pc |-> "validate", result |-> None]

PipelineStep(at, to, res) ==
    /\ f_out.pc = at
    /\ f_out' = [pc |-> to, result |-> res]
    /\ UNCHANGED <<files, next_tmp, classifiers, classifier, pc, local, result, exc,
                   failure, calls, f_in>>

\* lines 191-231: the early returns and the result dict
Validate ==
    /\ f_out.pc = "validate"
    /\ IF f_in.audio_path = "invalid"
       THEN PipelineStep("validate", "returned",
                         [status |-> "error", error |-> "Invalid audio path", data |-> {}])
       ELSE IF f_in.audio_path = "missing"
       THEN PipelineStep("validate", "returned",
                         [status |-> "error", error |-> "File not found", data |-> {}])
       ELSE PipelineStep("validate", "insert_call",
                         NewResult(ServiceLevelOf(f_in.service_level)))

\* lines 235-246: insert_call returns an id, returns None or raises
InsertCall ==
    /\ f_out.pc = "insert_call"
    /\ \E call_id \in {"id", "None", "raises"} :
          IF call_id = "id"
          THEN PipelineStep("insert_call", "transcription",
                            [f_out.result EXCEPT !.call_id = TRUE])
          ELSE PipelineStep("insert_call", "except", f_out.result)

\* not transcript_result or not transcript_result.get('text')
EmptyTranscript(speaker_data) == speaker_data.returned.transcript.text = <<>>

\* lines 248-273 once process_audio is back
Transcribed(speaker_data) ==
    IF "raised" \in DOMAIN speaker_data \/ EmptyTranscript(speaker_data)
    THEN PipelineStep("transcription", "except", f_out.result)
    ELSE PipelineStep("transcription", "risk_analysis",
                      [f_out.result EXCEPT
                          !.data = @ \cup {"transcription", "speaker"},
                          !.steps_completed = Append(@, "transcription")])

\* lines 248-273: step 1, for every level
Transcription ==
    /\ f_out.pc = "transcription"
    /\ Transcribed(OutcomeAlone(f_in.file, f_in.classifier))

\* a step in its try block: it appends its name, or its collaborator raises
\* and the handler records the error and a default datum
TryStep(at, to, datum, message) ==
    \E raises \in BOOLEAN :
        PipelineStep(at, to,
            IF raises
            THEN [f_out.result EXCEPT !.errors = Append(@, message), !.data = @ \cup {datum}]
            ELSE [f_out.result EXCEPT !.steps_completed = Append(@, at),
                                      !.data = @ \cup {datum}])

\* a step behind "if service_level in levels"
GatedStep(levels, at, to, datum, message) ==
    IF f_out.result.service_level \notin levels
    THEN PipelineStep(at, to, f_out.result)
    ELSE TryStep(at, to, datum, message)

\* lines 275-291: step 2, for every level
RiskAnalysis ==
    /\ f_out.pc = "risk_analysis"
    /\ TryStep("risk_analysis", "sentiment_analysis", "risk", "Risk analysis failed")

\* lines 293-317
SentimentAnalysis ==
    /\ f_out.pc = "sentiment_analysis"
    /\ GatedStep({"standard", "advanced"}, "sentiment_analysis", "qa_evaluation", "sentiment",
                 "Sentiment analysis failed")

\* lines 319-342
QaEvaluation ==
    /\ f_out.pc = "qa_evaluation"
    /\ GatedStep({"standard", "advanced"}, "qa_evaluation", "kpi_calculation", "qa",
                 "QA evaluation failed")

\* lines 344-365
KpiCalculation ==
    /\ f_out.pc = "kpi_calculation"
    /\ GatedStep({"standard", "advanced"}, "kpi_calculation", "pattern_detection", "kpis",
                 "KPI calculation failed")

\* lines 367-378
PatternDetection ==
    /\ f_out.pc = "pattern_detection"
    /\ GatedStep({"advanced"}, "pattern_detection", "anomaly_detection", "patterns",
                 "Pattern detection failed")

\* lines 380-391
AnomalyDetection ==
    /\ f_out.pc = "anomaly_detection"
    /\ GatedStep({"advanced"}, "anomaly_detection", "complete", "anomalies",
                 "Anomaly detection failed")

\* lines 393-407: a failure of update_call_status is logged and dropped
Complete ==
    /\ f_out.pc = "complete"
    /\ PipelineStep("complete", "returned", [f_out.result EXCEPT !.status = "completed"])

\* lines 409-417: the outer handler; update_call_status may raise out of it
Except ==
    /\ f_out.pc = "except"
    /\ \E raises \in BOOLEAN :
          PipelineStep("except",
                       IF raises /\ f_out.result.call_id THEN "raised" ELSE "returned",
                       [f_out.result EXCEPT !.status = "error",
                                            !.errors = Append(@, "str(e)")])

NextPipeline ==
    \/ Validate
    \/ InsertCall
    \/ Transcription
    \/ RiskAnalysis
    \/ SentimentAnalysis
    \/ QaEvaluation
    \/ KpiCalculation
    \/ PatternDetection
    \/ AnomalyDetection
    \/ Complete
    \/ Except

SpecPipeline == InitPipeline /\ [][NextPipeline]_vars

\* _align_segments on up to MaxOverlaps transcript segments and up to
\* MaxOverlaps diarized segments that may overlap and come in any order
MaxOverlaps == 2

DiarSeg(speaker, a, b, confidence) ==
    [speaker |-> speaker, start |-> Tick(a), end |-> Tick(b), confidence |-> confidence]

OverlappingSegments ==
    {DiarSeg("speaker_2", 0, 2, Dec(5, 10)), DiarSeg("speaker_1", 1, 3, Dec(2, 10)),
     DiarSeg("speaker_2", 2, 2, Dec(4, 10))}

OverlapInputs ==
    {[whisper_segments |-> w, diar_segments |-> d] :
        w \in UNION {[1..n -> AlignWhisperSegments] : n \in 0..MaxOverlaps},
        d \in UNION {[1..n -> OverlappingSegments] : n \in 0..MaxOverlaps}}

SpecOverlap == InitFunction(OverlapInputs) /\ [][ApplyAlign]_vars

\* _aggregate_by_speaker on up to MaxAligned aligned segments of two
\* speakers, with fragments that are empty, blank or padded
MaxAligned == 3

AlignedSegments ==
    {[speaker |-> sp, start |-> Tick(0), end |-> Tick(1), text |-> text,
      confidence |-> Dec(5, 10)] :
        sp \in {"speaker_1", "speaker_2"}, text \in {<<>>, TxtBlank, TxtPagar}}

AggregateInputs == UNION {[1..n -> AlignedSegments] : n \in 0..MaxAligned}

ApplyAggregate == Apply(AggregateBySpeaker(f_in))

SpecAggregate == InitFunction(AggregateInputs) /\ [][ApplyAggregate]_vars

\* _infer_roles on the transcripts of up to MaxRanked speakers, each saying
\* nothing, an operator cue, two operator cues or a client cue
MaxRanked == 3

RankedLabels == <<"speaker_1", "speaker_2", "speaker_3", "speaker_4", "speaker_5">>

RankedTexts == {<<>>, CueText(1, 0), CueText(2, 0), CueText(0, 1)}

RankedBy(texts) ==
    [k \in 1..Len(texts) |->
        [speaker |-> RankedLabels[k], text |-> texts[k], word_count |-> WordCount(texts[k])]]

RankedInputs == {RankedBy(texts) : texts \in UNION {[1..n -> RankedTexts] : n \in 0..MaxRanked}}

SpecRanking == InitFunction(RankedInputs) /\ [][ApplyInfer]_vars

\* _compute_speaking_balance on an operator and a client of up to
\* MaxShareWords words each
MaxShareWords == 13

ShareInputs ==
    {<< [speaker |-> "channel_left", role |-> "operator", word_count |-> o],
        [speaker |-> "channel_right", role |-> "client", word_count |-> c] >> :
        o \in 0..MaxShareWords, c \in 0..MaxShareWords}

SpecShares == InitFunction(ShareInputs) /\ [][ApplyBalance]_vars


\* _process_mono from the diarization to the role mapping, on clips of up
\* to MaxScanFrames frames that are silent or loud and on transcripts of up
\* to three segments; f_out is the local variables of the call
MonoClips ==
    UNION {{[samples |-> (n - 1) * HopLength + 7, rms |-> rms] :
               rms \in [1..n -> {0, 4}]} : n \in 1..MaxScanFrames}

MonoTranscripts ==
    {<<>>, <<Seg(0, 1, TxtSaludo)>>, <<Seg(1, 3, TxtPagar)>>, <<Seg(3, 4, TxtHola)>>,
     <<Seg(0, 1, TxtSaludo), Seg(1, 3, TxtPagar)>>,
     <<Seg(0, 1, TxtSaludo), Seg(3, 4, TxtHola)>>,
     <<Seg(1, 3, TxtPagar), Seg(3, 4, TxtHola)>>,
     <<Seg(0, 1, TxtSaludo), Seg(1, 3, TxtPagar), Seg(3, 4, TxtHola)>>}

MonoInputs ==
    {[audio |-> a, whisper_segments |-> w] : a \in MonoClips, w \in MonoTranscripts}

ProcessMono(diar_segments, whisper_segments) ==
    MonoAligned([NoLocals EXCEPT !.diar_segments = diar_segments],
                AlignSegments(whisper_segments, diar_segments))

ApplyMono == Apply(ProcessMono(Diarize(f_in.audio), f_in.whisper_segments))

SpecMono == InitFunction(MonoInputs) /\ [][ApplyMono]_vars

(***************************************************************************)
(* The properties.                                                         *)
(***************************************************************************)
Done(t) == pc[t] \in {"returned", "raised"}

Returned(t) == pc[t] = "returned"

IsStereo(t) == files[AudioPath(t)].decodable /\ files[AudioPath(t)].channels = 2

IsMono(t) == files[AudioPath(t)].decodable /\ files[AudioPath(t)].channels # 2

\* the number of whitespace-separated tokens of a text, counted at the end
\* of each token
TokenCount(t) ==
    Cardinality({i \in 1..Len(t) : ~IsSpace(t[i]) /\ (i = Len(t) \/ IsSpace(t[i + 1]))})

\* the words of the entries of speaker sp
RECURSIVE SpeakerWords(_, _)
SpeakerWords(transcript_by_speaker, sp) ==
    IF transcript_by_speaker = <<>> THEN 0
    ELSE (IF transcript_by_speaker[1].speaker = sp
          THEN transcript_by_speaker[1].word_count ELSE 0)
         + SpeakerWords(Tail(transcript_by_speaker), sp)

\* C1: once a call on a stereo input has returned or raised, neither of the
\* two temporary channel files split_stereo_channels created for it exists.
C1_TempFilesDeleted ==
    \A t \in Threads :
        (Done(t) /\ local[t].left_path # NoPath) =>
            /\ local[t].left_path \notin DOMAIN files
            /\ local[t].right_path \notin DOMAIN files

\* C2: whenever process_audio returns for an input of two channels, the
\* role_mapping it returns is operator = channel_left, client =
\* channel_right, confidence = 0.95, strategy = stereo_channel_mapping,
\* whatever the channels say.
C2_StereoMappingFixed ==
    \A t \in Threads :
        (Returned(t) /\ result[t].audio_profile.channels = 2) =>
            \A m \in {result[t].transcript.role_mapping,
                      result[t].speaker_summary.role_mapping} :
                /\ m.operator = "channel_left"
                /\ m.client = "channel_right"
                /\ m.confidence = Dec(95, 100)
                /\ m.strategy = "stereo_channel_mapping"

\* a stereo call has returned whose left channel says a client cue and whose
\* right channel says an operator cue
C2_Witness ==
    \E t \in Threads :
        /\ Returned(t)
        /\ result[t].audio_profile.channels = 2
        /\ Contains(Lower(result[t].transcript.transcript_by_speaker[1].text),
                    CLIENT_CUES[3])
        /\ Contains(Lower(result[t].transcript.transcript_by_speaker[2].text),
                    OPERATOR_CUES[3])

\* C3: whenever a mono call returns a role_mapping naming speaker X as
\* operator and speaker Y as client, and X or Y has a word, the returned
\* speaking_balance is not the no-data balance and has operator_words = the
\* words of X and client_words = the words of Y.
C3_MonoBalanceCountsRoles ==
    \A t \in Threads :
        (Returned(t) /\ IsMono(t)) =>
            LET tr == result[t].transcript
                x  == SpeakerWords(tr.transcript_by_speaker, tr.role_mapping.operator)
                y  == SpeakerWords(tr.transcript_by_speaker, tr.role_mapping.client)
            IN  (/\ tr.role_mapping.operator # "None"
                 /\ tr.role_mapping.client # "None"
                 /\ x + y > 0) =>
                    /\ tr.speaking_balance.balance_quality # "SIN_DATOS"
                    /\ "operator_words" \in DOMAIN tr.speaking_balance
                    /\ tr.speaking_balance.operator_words = x
                    /\ tr.speaking_balance.client_words = y

\* C4: whenever the transcription or the sentiment collaborator has failed
\* during a call, the call ends by raising that same failure.
C4_FailurePropagates ==
    \A t \in Threads :
        (Done(t) /\ failure[t] # "none") => (pc[t] = "raised" /\ exc[t] = failure[t])

\* C5: _align_segments returns as many segments as there are transcript
\* segments, the i-th carrying the start, end and text of the i-th
\* transcript segment.
C5_AlignKeepsSegments ==
    Applied =>
        /\ Len(f_out.value) = Len(f_in.whisper_segments)
        /\ \A i \in 1..Len(f_in.whisper_segments) :
            /\ i \in DOMAIN f_out.value
            /\ f_out.value[i].start = f_in.whisper_segments[i].start
            /\ f_out.value[i].end = f_in.whisper_segments[i].end
            /\ f_out.value[i].text = f_in.whisper_segments[i].text

\* _align_segments has run on segments of which one matches a diarized
\* segment and another matches none
C5_Witness ==
    /\ Applied
    /\ \E i, j \in 1..Len(f_in.whisper_segments) :
        /\ i < j
        /\ Matches(f_in.whisper_segments[i], f_in.diar_segments) = {}
        /\ Matches(f_in.whisper_segments[j], f_in.diar_segments) # {}
        /\ f_in.whisper_segments[i].text # f_in.whisper_segments[j].text

\* C6: every transcript_by_speaker entry process_audio returns, on either
\* path, has word_count equal to the number of whitespace-separated tokens
\* of its text.
C6_WordCountIsTokenCount ==
    \A t \in Threads :
        Returned(t) =>
            \A k \in 1..Len(result[t].transcript.transcript_by_speaker) :
                result[t].transcript.transcript_by_speaker[k].word_count
                    = TokenCount(result[t].transcript.transcript_by_speaker[k].text)

\* a mono call has returned two speakers, one of them built from two
\* transcript segments and saying several words
C6_Witness ==
    \E t \in Threads :
        /\ Returned(t)
        /\ IsMono(t)
        /\ Len(result[t].transcript.transcript_by_speaker) = 2
        /\ \E k \in 1..2 :
            /\ Len(result[t].transcript.transcript_by_speaker[k].segments) = 2
            /\ result[t].transcript.transcript_by_speaker[k].word_count > 2

\* operator_percentage + client_percentage as Python adds them
PercentageSum(balance) == FAdd(balance.operator_percentage, balance.client_percentage)

\* the counted words of a balance; the no-data balance carries none
CountedWords(transcript_by_speaker) ==
    RoleWords(transcript_by_speaker, "operator") + RoleWords(transcript_by_speaker, "client")

NoDataBalance(balance) ==
    /\ balance.operator_percentage = FZero
    /\ balance.client_percentage = FZero
    /\ balance.balance_quality = "SIN_DATOS"

\* 2^-45, two units in the last place of 100
RoundingTolerance == FMul(Dec(1, 4194304), Dec(1, 8388608))

\* C7, as stated: operator_percentage + client_percentage = 100 whenever
\* operator_words + client_words > 0, and both are 0 with the no-data
\* classification when operator_words + client_words = 0.
C7_SumIsExactly100 ==
    Applied =>
        IF CountedWords(f_in) > 0
        THEN PercentageSum(f_out.value) = FromInt(100)
        ELSE NoDataBalance(f_out.value)

\* C7, amended: operator_percentage + client_percentage is within 2^-45 of
\* 100 (floating-point rounding) whenever operator_words + client_words > 0,
\* with operator_words and client_words the counts of the two roles; both
\* percentages are 0 with the no-data classification when the sum is 0.
C7_SumIs100UpToRounding ==
    Applied =>
        IF CountedWords(f_in) > 0
        THEN /\ FLe(FSub(FromInt(100), RoundingTolerance), PercentageSum(f_out.value))
             /\ FLe(PercentageSum(f_out.value), FAdd(FromInt(100), RoundingTolerance))
             /\ f_out.value.operator_words + f_out.value.client_words = CountedWords(f_in)
        ELSE NoDataBalance(f_out.value)

\* a balance has been computed whose percentages do not add up to 100
C7_Witness ==
    /\ Applied
    /\ CountedWords(f_in) > 0
    /\ PercentageSum(f_out.value) # FromInt(100)

\* C8: the confidence of the role_mapping of either path lies in [0, 1],
\* for no speaker, one speaker, or more, whatever cue phrases they say.
C8_ConfidenceInUnitInterval ==
    Applied =>
        /\ FLe(FZero, f_out.value.confidence)
        /\ FLe(f_out.value.confidence, FromInt(1))

\* roles have been inferred for two speakers whose scores lie more than 1
\* apart
C8_Witness ==
    /\ Applied
    /\ ~f_in.stereo
    /\ f_out.value.strategy = "cue_and_order"
    /\ FLt(FromInt(1),
           FSub(SortedSpeakers(Scores(f_in.transcript_by_speaker))[1].score,
                SortedSpeakers(Scores(f_in.transcript_by_speaker))[2].score))

\* no frame of the clip is at or above the threshold
Silent(audio) == \A i \in 1..Len(audio.rms) : ~IsVoiced(audio.rms, i)

\* C9: for a clip with no frame at or above the threshold, diarize returns
\* exactly one segment: speaker_1, from 0 to the clip's duration, with
\* confidence 0.2.
C9_SilentClipOneSegment ==
    (Applied /\ Silent(f_in)) =>
        f_out.value = << [speaker |-> "speaker_1", start |-> FZero,
                          end |-> Dec(f_in.samples, SampleRate),
                          confidence |-> Dec(2, 10)] >>

\* diarize has run on a silent clip of several frames
C9_Witness ==
    /\ Applied
    /\ Silent(f_in)
    /\ Len(f_in.rms) > 1

\* what a process_audio call ends with
Outcome(t) ==
    IF pc[t] = "raised" THEN [raised |-> exc[t]] ELSE [returned |-> result[t]]

\* the temporary files of a call
TempFiles(t) == {local[t].left_path, local[t].right_path} \ {NoPath}

\* C10: of two calls running at once on the one analyzer, each ends as it
\* would when run alone, and neither uses a temporary file of the other.
C10_ConcurrentCallsIndependent ==
    \A t \in Threads :
        /\ Done(t) => Outcome(t) = OutcomeAlone(files[AudioPath(t)], classifier[t])
        /\ \A u \in Threads \ {t} : TempFiles(t) \cap TempFiles(u) = {}

\* two calls on different stereo files have both returned, the second
\* having created its temporary files before the first
C10_Witness ==
    /\ Returned(1) /\ Returned(2)
    /\ IsStereo(1) /\ IsStereo(2)
    /\ files[AudioPath(1)] # files[AudioPath(2)]
    /\ local[2].left_path[1] < local[1].left_path[1]

\* C11: for the mono transcript in which speaker_1 says "Buenos días, mi
\* nombre es Ana, ¿en qué puedo ayudar?" and speaker_2 says "No puedo pagar la
\* cuota este mes", _infer_roles returns speaker_1 as operator and speaker_2
\* as client with a confidence of at least 0.5, so uncertain is false
C11_GreetingMakesOperator ==
    (Applied /\ f_in = SpokenBy(<<TxtAgente, TxtCuota>>)) =>
        /\ f_out.value.operator = "speaker_1"
        /\ f_out.value.client = "speaker_2"
        /\ FLe(Dec(5, 10), f_out.value.confidence)
        /\ f_out.value.uncertain = FALSE

C11_Witness ==
    /\ Applied
    /\ f_in = SpokenBy(<<TxtAgente, TxtCuota>>)
    /\ f_out.value.strategy = "cue_and_order"

\* diarize has returned
Scanned == ~f_out.pending

\* C12: for a 45-second mono clip whose every frame is at or above the
\* threshold, diarize returns exactly one segment, of speaker_1, that starts
\* at 0 and ends at 45 seconds
C12_SteadyClipOneSegmentTo45 ==
    (Scanned /\ f_in.samples = 45 * SampleRate) =>
        /\ Len(f_out.value) = 1
        /\ f_out.value[1].speaker = "speaker_1"
        /\ f_out.value[1].start = FZero
        /\ f_out.value[1].end = FromInt(45)

\* the stereo file whose left channel says "Hola buenos días" and whose
\* right channel says "necesito ayuda"
SaysHolaNecesito(t) ==
    /\ IsStereo(t)
    /\ files[AudioPath(t)].tracks[1].engine = Said(TxtHola)
    /\ files[AudioPath(t)].tracks[2].engine = Said(TxtNecesito)

\* C13: for a stereo file whose left channel is transcribed as "Hola buenos
\* días" and whose right channel as "necesito ayuda", the result has exactly
\* two transcript_by_speaker entries, the first with role operator and
\* word_count 3, the second with role client and word_count 2, and the
\* speaking balance is computed from those counts: the operator's share is
\* 60 %, which is classified as unbalanced
C13_StereoCountsAndBalance ==
    \A t \in Threads :
        (Returned(t) /\ SaysHolaNecesito(t)) =>
            /\ Len(result[t].transcript.transcript_by_speaker) = 2
            /\ result[t].transcript.transcript_by_speaker[1].role = "operator"
            /\ result[t].transcript.transcript_by_speaker[1].word_count = 3
            /\ result[t].transcript.transcript_by_speaker[2].role = "client"
            /\ result[t].transcript.transcript_by_speaker[2].word_count = 2
            /\ result[t].transcript.speaking_balance.operator_words = 3
            /\ result[t].transcript.speaking_balance.client_words = 2
            /\ result[t].transcript.speaking_balance.operator_percentage = FromInt(60)
            /\ result[t].transcript.speaking_balance.balance_quality = "DESBALANCEADO"
            /\ result[t].speaker_summary.speaking_balance
                   = result[t].transcript.speaking_balance

C13_Witness ==
    \E t \in Threads :
        /\ Returned(t)
        /\ SaysHolaNecesito(t)
        /\ result[t].audio_profile.channels = 2
        /\ result[t].transcript.transcript_by_speaker[1].text = TxtHola

\* the names of the steps in the order of the code
StepOrder ==
    <<"transcription", "risk_analysis", "sentiment_analysis", "qa_evaluation",
      "kpi_calculation", "pattern_detection", "anomaly_detection">>

\* the steps the module docstring gives a level
StepsOfLevel(service_level) ==
    IF service_level = "basic" THEN SubSeq(StepOrder, 1, 2)
    ELSE IF service_level = "advanced" THEN StepOrder
    ELSE SubSeq(StepOrder, 1, 5)

\* steps holds names of StepOrder, each at most once, in that order
InStepOrder(steps) ==
    \A i \in 1..Len(steps) :
        \E p \in 1..Len(StepOrder) :
            /\ steps[i] = StepOrder[p]
            /\ \A j \in 1..(i - 1) : \E q \in 1..(p - 1) : steps[j] = StepOrder[q]

PipelineCompleted == f_out.pc = "returned" /\ f_out.result.status = "completed"

\* C14: in every run of process_audio_file that ends with status
\* 'completed', steps_completed starts with 'transcription' and keeps the
\* order of the code; sentiment_analysis, qa_evaluation and kpi_calculation
\* appear only for standard or advanced, pattern_detection and
\* anomaly_detection only for advanced; and when no step failed,
\* steps_completed is exactly the list of the level, an unknown level
\* counting as standard
C14_StepsGatedByLevel ==
    PipelineCompleted =>
        /\ f_out.result.steps_completed # <<>>
        /\ f_out.result.steps_completed[1] = "transcription"
        /\ InStepOrder(f_out.result.steps_completed)
        /\ \A i \in 1..Len(f_out.result.steps_completed) :
              /\ f_out.result.steps_completed[i]
                     \in {"sentiment_analysis", "qa_evaluation", "kpi_calculation"}
                  => f_in.service_level \notin {"basic"}
              /\ f_out.result.steps_completed[i]
                     \in {"pattern_detection", "anomaly_detection"}
                  => f_in.service_level = "advanced"
        /\ f_out.result.errors = <<>> =>
              f_out.result.steps_completed = StepsOfLevel(f_in.service_level)

\* a run of an unknown level has completed without a failure
C14_Witness ==
    /\ PipelineCompleted
    /\ f_in.service_level = "premium"
    /\ f_out.result.errors = <<>>
    /\ Len(f_out.result.steps_completed) = 5

\* the frames (from 0) at or above the threshold, by the definition of the
\* threshold
VoicedWith(rms, total, peak) ==
    {i \in 0..(Len(rms) - 1) : IsVoicedOf(rms, total, peak, i + 1)}

VoicedOf(rms) ==
    VoicedWith(rms, SumRange(rms, 1, Len(rms)), MaxOf({rms[k] : k \in 1..Len(rms)}))

VoicedFrames == VoicedOf(Rms(f_in))

\* the last frame of the maximal run of voiced frames that starts at frame i
RunEnd(voiced, i) == MinOf({j \in voiced : j >= i /\ j + 1 \notin voiced})

\* the first frames of the maximal runs that end before frame `before`
RunStarts(voiced, before) ==
    {i \in voiced : i - 1 \notin voiced /\ RunEnd(voiced, i) < before}

\* [i * hop, (j + 1) * hop] in seconds, for the run i..j
RunSpan(voiced, i) ==
    [start |-> IntDiv(i * HopLength, SampleRate),
     end   |-> IntDiv((RunEnd(voiced, i) + 1) * HopLength, SampleRate)]

\* the spans of the runs starting at `starts`, in the order of the frames
SpansOf(voiced, starts) ==
    [k \in 1..Cardinality(starts) |->
        RunSpan(voiced, CHOOSE i \in starts : Cardinality({j \in starts : j < i}) = k - 1)]

RunSpans(voiced, before) == SpansOf(voiced, RunStarts(voiced, before))

Spans(segments) ==
    [k \in 1..Len(segments) |-> [start |-> segments[k].start, end |-> segments[k].end]]

\* C15: the scan emits exactly one segment per maximal run of voiced frames,
\* [i * hop, (j + 1) * hop] in seconds for the run i..j.  After idx frames
\* the emitted segments are those of the runs followed by an unvoiced frame
\* among the first idx, so a run is emitted at the first unvoiced frame
\* after it; a run that reaches the last frame is emitted after the loop,
\* and diarize returns the segments of all the runs.
C15_OneSegmentPerRun ==
    /\ (~Scanned) =>
          Spans(f_out.scan.segments) = RunSpans(VoicedFrames, f_out.idx - 1)
    /\ (Scanned /\ VoicedFrames # {}) =>
          Spans(f_out.value) = RunSpans(VoicedFrames, Len(Rms(f_in)))

\* diarize has returned two segments, the first emitted inside the loop and
\* the second, whose run reaches the last frame, after it
C15_Witness ==
    /\ Scanned
    /\ Len(f_out.value) = 2
    /\ Len(Rms(f_in)) - 1 \in VoicedFrames
    /\ f_out.value[2].end = IntDiv(Len(Rms(f_in)) * HopLength, SampleRate)

\* C16: when diarize emits a voiced segment, the k-th segment it returns,
\* counted from 0, is of speaker_1 for even k and of speaker_2 for odd k, and
\* each has confidence exactly 0.5
C16_SpeakersAlternate ==
    (Scanned /\ VoicedFrames # {}) =>
        \A k \in 1..Len(f_out.value) :
            /\ f_out.value[k].speaker
                   = (IF (k - 1) % 2 = 0 THEN "speaker_1" ELSE "speaker_2")
            /\ f_out.value[k].confidence = Dec(5, 10)

C16_Witness ==
    /\ Scanned
    /\ VoicedFrames # {}
    /\ Len(f_out.value) >= 3
    /\ f_out.value[1].speaker = "speaker_1"
    /\ f_out.value[2].speaker = "speaker_2"
    /\ f_out.value[3].speaker = "speaker_1"

\* C17: in the list diarize returns every segment has start <= end, the
\* segments are sorted by start, and the end of each is strictly before the
\* start of the next
C17_SegmentsOrderedAndDisjoint ==
    Scanned =>
        /\ \A k \in 1..Len(f_out.value) : FLe(f_out.value[k].start, f_out.value[k].end)
        /\ \A k \in 1..(Len(f_out.value) - 1) :
              /\ FLe(f_out.value[k].start, f_out.value[k + 1].start)
              /\ FLt(f_out.value[k].end, f_out.value[k + 1].start)

\* two runs of voiced frames with a single unvoiced frame between them
C17_Witness ==
    /\ Scanned
    /\ Len(f_out.value) = 2
    /\ VoicedFrames = {0, 2}
    /\ FLt(FZero, f_out.value[2].start)

\* (start + end) / 2
Midpoint(ws) == FDiv(FAdd(ws.start, ws.end), FromInt(2))

\* start <= midpoint <= end
Holds(ds, midpoint) == FLe(ds.start, midpoint) /\ FLe(midpoint, ds.end)

\* C18: each aligned segment has the speaker and the confidence of the first
\* diarized segment, in list order, whose closed interval [start, end] holds
\* the midpoint (start + end) / 2 of the transcript segment, also when
\* several hold it; when none holds it, the aligned segment has speaker
\* speaker_1 and confidence 0.3
C18_FirstContainingSegment ==
    Applied =>
        /\ Len(f_out.value) = Len(f_in.whisper_segments)
        /\ \A i \in 1..Len(f_out.value) :
              \/ /\ \A k \in 1..Len(f_in.diar_segments) :
                        ~Holds(f_in.diar_segments[k], Midpoint(f_in.whisper_segments[i]))
                 /\ f_out.value[i].speaker = "speaker_1"
                 /\ f_out.value[i].confidence = Dec(3, 10)
              \/ \E k \in 1..Len(f_in.diar_segments) :
                    /\ Holds(f_in.diar_segments[k], Midpoint(f_in.whisper_segments[i]))
                    /\ \A j \in 1..(k - 1) :
                          ~Holds(f_in.diar_segments[j], Midpoint(f_in.whisper_segments[i]))
                    /\ f_out.value[i].speaker = f_in.diar_segments[k].speaker
                    /\ f_out.value[i].confidence = f_in.diar_segments[k].confidence

\* a midpoint held by two diarized segments of different speakers, and a
\* midpoint held by none
C18_Witness ==
    /\ Applied
    /\ Len(f_in.diar_segments) = 2
    /\ f_in.diar_segments[1].speaker # f_in.diar_segments[2].speaker
    /\ \E i, j \in 1..Len(f_in.whisper_segments) :
          /\ Holds(f_in.diar_segments[1], Midpoint(f_in.whisper_segments[i]))
          /\ Holds(f_in.diar_segments[2], Midpoint(f_in.whisper_segments[i]))
          /\ ~Holds(f_in.diar_segments[1], Midpoint(f_in.whisper_segments[j]))
          /\ ~Holds(f_in.diar_segments[2], Midpoint(f_in.whisper_segments[j]))

\* the position of the first segment of a speaker
FirstOf(aligned_segments, speaker) ==
    MinOf({i \in 1..Len(aligned_segments) : aligned_segments[i].speaker = speaker})

\* C19: _aggregate_by_speaker returns exactly one record per speaker label
\* of the aligned segments, the records ordered by the first occurrence of
\* their labels; so the first record, the one _infer_roles scores with
\* idx 0, is of the speaker of the first aligned segment
C19_OneRecordPerSpeakerInOrder ==
    Applied =>
        /\ {f_out.value[k].speaker : k \in 1..Len(f_out.value)}
               = {f_in[i].speaker : i \in 1..Len(f_in)}
        /\ \A a, b \in 1..Len(f_out.value) :
              a < b => FirstOf(f_in, f_out.value[a].speaker)
                           < FirstOf(f_in, f_out.value[b].speaker)
        /\ f_in # <<>> =>
              /\ f_out.value[1].speaker = f_in[1].speaker
              /\ Scores(f_out.value)[1]
                     = [speaker |-> f_in[1].speaker,
                        score |-> SpeakerScore(0, f_out.value[1])]

\* speaker_2 speaks first, then speaker_1, then speaker_2 again
C19_Witness ==
    /\ Applied
    /\ Len(f_in) = 3
    /\ f_in[1].speaker = "speaker_2"
    /\ f_in[2].speaker = "speaker_1"
    /\ f_in[3].speaker = "speaker_2"
    /\ Len(f_out.value) = 2

\* the fragments of a speaker, stripped, the empty ones left out
RECURSIVE Fragments(_, _)
Fragments(aligned_segments, speaker) ==
    IF aligned_segments = <<>> THEN <<>>
    ELSE (IF aligned_segments[1].speaker = speaker /\ Strip(aligned_segments[1].text) # <<>>
          THEN <<Strip(aligned_segments[1].text)>> ELSE <<>>)
         \o Fragments(Tail(aligned_segments), speaker)

\* C20: the text of every record _aggregate_by_speaker returns is the
\* non-empty fragments of its speaker, in order, joined by one space and
\* trimmed; an empty or blank fragment adds nothing, so the text never has
\* two consecutive spaces between two fragments
C20_TextJoinsNonEmptyFragments ==
    Applied =>
        \A k \in 1..Len(f_out.value) :
            f_out.value[k].text = Join(<<" ">>, Fragments(f_in, f_out.value[k].speaker))

\* C21: with fewer than two speakers _infer_roles names no client: for no
\* speaker it returns operator None, client None, confidence 0 and strategy
\* "no_data"; for one speaker it returns that speaker as operator, client
\* None, confidence 0.4 and strategy "single_speaker", whatever cues the
\* speaker's text holds
C21_FewerThanTwoSpeakers ==
    (Applied /\ ~f_in.stereo) =>
        /\ Len(f_in.transcript_by_speaker) = 0 =>
              /\ f_out.value.operator = "None"
              /\ f_out.value.client = "None"
              /\ f_out.value.confidence = FZero
              /\ f_out.value.strategy = "no_data"
        /\ Len(f_in.transcript_by_speaker) = 1 =>
              /\ f_out.value.operator = f_in.transcript_by_speaker[1].speaker
              /\ f_out.value.client = "None"
              /\ f_out.value.confidence = Dec(4, 10)
              /\ f_out.value.strategy = "single_speaker"

\* roles have been inferred for a single speaker who says two client cues
\* and no operator cue
C21_Witness ==
    /\ Applied
    /\ ~f_in.stereo
    /\ Len(f_in.transcript_by_speaker) = 1
    /\ CueCount(CLIENT_CUES, Lower(f_in.transcript_by_speaker[1].text)) = 2
    /\ CueCount(OPERATOR_CUES, Lower(f_in.transcript_by_speaker[1].text)) = 0
    /\ f_out.value.strategy = "single_speaker"

\* 0.3 for the first speaker, plus 0.2 per operator cue, minus 0.2 per
\* client cue in the speaker's text
CueScore(k, text) ==
    FSub(FAdd(IF k = 1 THEN Dec(3, 10) ELSE FZero,
              FMul(FromInt(CueCount(OPERATOR_CUES, Lower(text))), Dec(2, 10))),
         FMul(FromInt(CueCount(CLIENT_CUES, Lower(text))), Dec(2, 10)))

\* speaker o is the operator and speaker c the client of a mapping, o of the
\* highest score and c of the highest score of the others
RankedFirstAndSecond(o, c, transcript_by_speaker, mapping) ==
    /\ o # c
    /\ mapping.operator = transcript_by_speaker[o].speaker
    /\ mapping.client = transcript_by_speaker[c].speaker
    /\ \A k \in 1..Len(transcript_by_speaker) :
          FLe(CueScore(k, transcript_by_speaker[k].text),
              CueScore(o, transcript_by_speaker[o].text))
    /\ \A k \in 1..Len(transcript_by_speaker) :
          k # o => FLe(CueScore(k, transcript_by_speaker[k].text),
                       CueScore(c, transcript_by_speaker[c].text))

\* C22: with two speakers or more, the score of a speaker is 0.3 if it is
\* the first (else 0) plus 0.2 per operator cue minus 0.2 per client cue of
\* its text; _infer_roles returns the speaker of the highest score as
\* operator and the speaker of the second-highest score as client, two
\* different speakers, assigns no other speaker, and sets strategy to
\* "cue_and_order"
C22_TopTwoByScore ==
    (Applied /\ Len(f_in) >= 2) =>
        /\ \A k \in 1..Len(f_in) :
              Scores(f_in)[k] = [speaker |-> f_in[k].speaker,
                                 score |-> CueScore(k, f_in[k].text)]
        /\ \E o, c \in 1..Len(f_in) : RankedFirstAndSecond(o, c, f_in, f_out.value)
        /\ f_out.value.operator # f_out.value.client
        /\ DOMAIN f_out.value = {"operator", "client", "confidence", "strategy", "uncertain"}
        /\ f_out.value.strategy = "cue_and_order"

\* roles have been inferred for three speakers of whom the second has the
\* highest score and the third the second-highest, the first being left out
C22_Witness ==
    /\ Applied
    /\ Len(f_in) = 3
    /\ f_out.value.operator = "speaker_2"
    /\ f_out.value.client = "speaker_3"
    /\ FLt(CueScore(1, f_in[1].text), CueScore(3, f_in[3].text))

\* the position of a speaker in a transcript
PositionOf(transcript_by_speaker, speaker) ==
    CHOOSE k \in 1..Len(transcript_by_speaker) : transcript_by_speaker[k].speaker = speaker

\* the score of a speaker of a transcript, by its position and its cues
ScoreIn(transcript_by_speaker, speaker) ==
    CueScore(PositionOf(transcript_by_speaker, speaker),
             transcript_by_speaker[PositionOf(transcript_by_speaker, speaker)].text)

\* operatorScore - clientScore of a mapping
ScoreGap(transcript_by_speaker, mapping) ==
    FSub(ScoreIn(transcript_by_speaker, mapping.operator),
         ScoreIn(transcript_by_speaker, mapping.client))

\* x clamped to [0.2, 0.95]
Clamped(x) ==
    IF FLt(x, Dec(2, 10)) THEN Dec(2, 10)
    ELSE IF FLt(Dec(95, 100), x) THEN Dec(95, 100)
    ELSE x

\* C23: with two speakers or more the confidence _infer_roles returns is
\* operatorScore - clientScore clamped to [0.2, 0.95], and uncertain is true
\* exactly when the confidence is below 0.5
C23_ConfidenceIsClampedGap ==
    (Applied /\ ~f_in.stereo /\ Len(f_in.transcript_by_speaker) >= 2) =>
        /\ f_out.value.confidence
               = Clamped(ScoreGap(f_in.transcript_by_speaker, f_out.value))
        /\ f_out.value.uncertain <=> FLt(f_out.value.confidence, Dec(5, 10))

\* roles have been inferred for two speakers whose scores lie less than 0.2
\* apart
C23_Witness ==
    /\ Applied
    /\ ~f_in.stereo
    /\ Len(f_in.transcript_by_speaker) >= 2
    /\ FLt(ScoreGap(f_in.transcript_by_speaker, f_out.value), Dec(2, 10))
    /\ f_out.value.confidence = Dec(2, 10)
    /\ f_out.value.uncertain

\* C24: when operator_words + client_words > 0, _compute_speaking_balance
\* gives balance_quality "BUENO" exactly when the operator's percentage of
\* the words lies in [35, 55], both ends included (7 of 20 and 11 of 20
\* words are balanced), and "DESBALANCEADO" otherwise
C24_BalancedOnClosedInterval ==
    (Applied /\ f_in[1].word_count + f_in[2].word_count > 0) =>
        /\ f_out.value.balance_quality \in {"BUENO", "DESBALANCEADO"}
        /\ f_out.value.balance_quality = "BUENO" <=>
              /\ 35 * (f_in[1].word_count + f_in[2].word_count) <= 100 * f_in[1].word_count
              /\ 100 * f_in[1].word_count <= 55 * (f_in[1].word_count + f_in[2].word_count)


\* the analyze_text calls of a call log, in order
RECURSIVE SentimentCalls(_)
SentimentCalls(log) ==
    IF log = <<>> THEN <<>>
    ELSE (IF log[1].op = "analyze_text" THEN <<log[1].text>> ELSE <<>>)
         \o SentimentCalls(Tail(log))

\* the three candidate texts of a call: operator-only, client-only, overall
Candidates(l) ==
    << Join(<<" ">>, RoleTexts(l.transcript_by_speaker, "operator")),
       Join(<<" ">>, RoleTexts(l.transcript_by_speaker, "client")),
       l.combined_text >>

\* C25: in one process_audio call the sentiment analyzer is invoked once for
\* each non-empty text among operator-only, client-only and overall, in that
\* order, and never for an empty one: past the sentiment step the
\* analyze_text calls of the log are exactly the non-empty candidates.
C25_OneInvocationPerNonEmptyText ==
    \A t \in Threads :
        pc[t] \in {"assemble", "returned"} =>
            SentimentCalls(calls[t]) = SelectSeq(Candidates(local[t]), LAMBDA text : text # <<>>)


\* the calls of a log made before the sentiment analysis
RECURSIVE BeforeSentiment(_)
BeforeSentiment(log) ==
    IF log = <<>> \/ log[1].op = "analyze_text" THEN <<>>
    ELSE <<log[1]>> \o BeforeSentiment(Tail(log))

IsPrefix(s, full) == Len(s) <= Len(full) /\ s = SubSeq(full, 1, Len(s))

\* the collaborator calls of _process_stereo, in order
StereoCalls(l) ==
    << [op |-> "detect_audio_profile"],
       [op |-> "split_stereo_channels"],
       [op |-> "transcribe_file", path |-> l.left_path, with_segments |-> FALSE],
       [op |-> "transcribe_file", path |-> l.right_path, with_segments |-> FALSE] >>

PastTranscription(t) ==
    \/ pc[t] \in {"stereo_build", "mono_build", "sentiment", "assemble", "returned"}
    \/ pc[t] = "raised" /\ exc[t] = "AttributeError"

\* C26: on an input of two channels process_audio calls, in this order and
\* no other, detect_audio_profile once, split_stereo_channels once, then
\* transcribe_file twice with with_segments false, on the left channel's file
\* and then on the right channel's; once both transcriptions are made the
\* four calls are all there; the call never reaches the diarizer or the
\* aligner, and the segments it returns are empty.
C26_StereoCallOrder ==
    \A t \in Threads :
        (pc[t] # "off" /\ IsStereo(t)) =>
            /\ IsPrefix(BeforeSentiment(calls[t]), StereoCalls(local[t]))
            /\ PastTranscription(t) =>
                  /\ BeforeSentiment(calls[t]) = StereoCalls(local[t])
                  /\ files[local[t].left_path] = MonoFile(files[AudioPath(t)].tracks[1])
                  /\ files[local[t].right_path] = MonoFile(files[AudioPath(t)].tracks[2])
            /\ pc[t] \notin {"diarize", "transcribe_mono", "mono_build"}
            /\ \A k \in 1..Len(calls[t]) : calls[t][k].op # "diarize"
            /\ local[t].diar_segments = <<>> /\ local[t].aligned_segments = <<>>
            /\ Returned(t) => result[t].transcript.segments = <<>>

C26_Witness ==
    /\ IsStereo(1) /\ Returned(1)
    /\ BeforeSentiment(calls[1]) = StereoCalls(local[1])
    /\ result[1].transcript.segments = <<>>


\* the collaborator calls of _process_mono, in order
MonoCalls(t) ==
    << [op |-> "detect_audio_profile"],
       [op |-> "diarize"],
       [op |-> "transcribe_file", path |-> AudioPath(t), with_segments |-> TRUE] >>

DiarizerFailed(t) == pc[t] = "raised" /\ exc[t] = "NoBackendError"

\* C27: on an input whose channel count is not 2 process_audio never calls
\* split_stereo_channels; it calls the diarizer once, then transcribe_file
\* once, on the input file itself and with with_segments true; what it goes
\* on with is the alignment of the transcribed segments to the diarizer's,
\* the aggregation of the aligned segments and the role inference on the
\* aggregate; a call the diarizer fails in has made no call to transcribe_file.
C27_MonoCallOrder ==
    \A t \in Threads :
        (pc[t] # "off" /\ IsMono(t)) =>
            /\ IsPrefix(BeforeSentiment(calls[t]), MonoCalls(t))
            /\ PastTranscription(t) => BeforeSentiment(calls[t]) = MonoCalls(t)
            /\ pc[t] \notin {"split", "export", "transcribe_left", "transcribe_right",
                             "stereo_build"}
            /\ local[t].left_path = NoPath /\ local[t].right_path = NoPath
            /\ pc[t] \in {"sentiment", "assemble", "returned"} =>
                  /\ local[t].aligned_segments =
                         AlignSegments(local[t].whisper_result.segments,
                                       local[t].diar_segments)
                  /\ local[t].transcript_by_speaker =
                         AggregateBySpeaker(local[t].aligned_segments)
                  /\ local[t].role_mapping = InferRoles(local[t].transcript_by_speaker)
            /\ DiarizerFailed(t) =>
                  /\ calls[t] = SubSeq(MonoCalls(t), 1, 2)
                  /\ local[t].whisper_result = None

\* a call on three channels returns with speakers
C27_Witness ==
    /\ IsMono(1) /\ Returned(1)
    /\ files[AudioPath(1)].channels = 3
    /\ BeforeSentiment(calls[1]) = MonoCalls(1)
    /\ Len(local[1].transcript_by_speaker) = 2

C27_DiarizerFails == IsMono(1) /\ DiarizerFailed(1)


\* the role role_mapping gives a speaker
AssignedRole(role_mapping, speaker) ==
    IF role_mapping.operator = speaker THEN "operator"
    ELSE IF role_mapping.client = speaker THEN "client"
    ELSE speaker

\* one "[ROLE] text" line for each entry whose text is not blank
RECURSIVE RoleLines(_, _)
RoleLines(transcript_by_speaker, role_mapping) ==
    IF transcript_by_speaker = <<>> THEN <<>>
    ELSE (IF Strip(transcript_by_speaker[1].text) = <<>> THEN <<>>
          ELSE << <<"[">>
                  \o Upper(Chars(AssignedRole(role_mapping, transcript_by_speaker[1].speaker)))
                  \o <<"]", " ">> \o Strip(transcript_by_speaker[1].text) >>)
         \o RoleLines(Tail(transcript_by_speaker), role_mapping)

\* C28: the combined text process_audio returns is, on either path, the
\* lines "[ROLE] text" of the speaker entries whose text is not empty, in the
\* order of the entries and joined by newlines, ROLE being OPERATOR or CLIENT
\* as the returned role_mapping assigns the entry's speaker.
C28_LinesCarryAssignedRoles ==
    \A t \in Threads :
        Returned(t) =>
            result[t].transcript.text =
                Join(<<"\n">>, RoleLines(result[t].transcript.transcript_by_speaker,
                                         result[t].transcript.role_mapping))

\* the part of it that holds: the lines of a call on two channels
C28_StereoLines ==
    \A t \in Threads :
        (Returned(t) /\ IsStereo(t)) =>
            result[t].transcript.text =
                Join(<<"\n">>, RoleLines(result[t].transcript.transcript_by_speaker,
                                         result[t].transcript.role_mapping))


TwoLabels == {"speaker_1", "speaker_2"}

\* C29: on the mono path the diarizer's segments and the aligned segments
\* are all labelled speaker_1 or speaker_2, transcript_by_speaker has at most
\* two entries, and every speaker of it is the operator or the client of
\* the role mapping.
C29_TwoLabelsOnly ==
    Applied =>
        /\ \A k \in 1..Len(f_out.value.diar_segments) :
               f_out.value.diar_segments[k].speaker \in TwoLabels
        /\ \A k \in 1..Len(f_out.value.aligned_segments) :
               f_out.value.aligned_segments[k].speaker \in TwoLabels
        /\ Len(f_out.value.transcript_by_speaker) <= 2
        /\ \A k \in 1..Len(f_out.value.transcript_by_speaker) :
               f_out.value.transcript_by_speaker[k].speaker
                   \in {f_out.value.role_mapping.operator, f_out.value.role_mapping.client}

\* three voiced stretches, a segment of the transcript in each
C29_Witness ==
    /\ Applied
    /\ Len(f_out.value.diar_segments) = 3
    /\ Len(f_out.value.aligned_segments) = 3
    /\ f_out.value.aligned_segments[3].speaker = "speaker_1"
    /\ f_out.value.aligned_segments[3].start = Tick(3)
    /\ Len(f_out.value.transcript_by_speaker) = 2


\* the score of the k-th speaker in exact tenths: 3 for the first speaker,
\* 2 per operator cue, -2 per client cue
Tenths(k, text) ==
    (IF k = 1 THEN 3 ELSE 0) + 2 * CueCount(OPERATOR_CUES, Lower(text))
        - 2 * CueCount(CLIENT_CUES, Lower(text))

TwoSpeakers == Applied /\ ~f_in.stereo /\ Len(f_in.transcript_by_speaker) = 2

\* the two scores differ, in tenths the first is odd and the second even,
\* and the operator is the one speaker of the higher score
UniqueHighest(transcript_by_speaker, mapping) ==
    LET first  == Scores(transcript_by_speaker)[1].score
        second == Scores(transcript_by_speaker)[2].score
        odd    == Tenths(1, transcript_by_speaker[1].text)
        even   == Tenths(2, transcript_by_speaker[2].text)
    IN  /\ first # second
        /\ odd % 2 = 1 /\ even % 2 = 0
        /\ FLt(second, first) <=> even < odd
        /\ mapping.operator = (IF FLt(second, first) THEN transcript_by_speaker[1].speaker
                               ELSE transcript_by_speaker[2].speaker)
        /\ mapping.client = (IF FLt(second, first) THEN transcript_by_speaker[2].speaker
                             ELSE transcript_by_speaker[1].speaker)
        /\ FLt(FZero, ScoreGap(transcript_by_speaker, mapping))

\* C30, as stated: with exactly two speakers the two scores are never equal
\* (in tenths the first is odd, the second even), the operator is the one
\* speaker of the higher score, and operatorScore - clientScore is at least
\* 0.1.
C30_GapAtLeastOneTenth ==
    TwoSpeakers =>
        /\ UniqueHighest(f_in.transcript_by_speaker, f_out.value)
        /\ FLe(Dec(1, 10), ScoreGap(f_in.transcript_by_speaker, f_out.value))

\* C30, amended: with exactly two speakers the two scores are never equal
\* (in tenths the first is odd, the second even), the operator is the one
\* speaker of the higher score, and operatorScore - clientScore is positive
\* and at least 0.1 up to floating-point rounding (within 2^-45 of it).
C30_GapAtLeastOneTenthUpToRounding ==
    TwoSpeakers =>
        /\ UniqueHighest(f_in.transcript_by_speaker, f_out.value)
        /\ FLe(FSub(Dec(1, 10), RoundingTolerance),
               ScoreGap(f_in.transcript_by_speaker, f_out.value))

\* roles have been inferred for two speakers whose scores lie just under
\* 0.1 apart
C30_Witness ==
    /\ TwoSpeakers
    /\ UniqueHighest(f_in.transcript_by_speaker, f_out.value)
    /\ FLt(ScoreGap(f_in.transcript_by_speaker, f_out.value), Dec(1, 10))

====
